---- MODULE Spec2Model ----
(***************************************************************************)
(* Timer Dashboard + YouTube Audio (src/main.py).                          *)
(*                                                                         *)
(* The module models the parts of the program as state machines over one   *)
(* set of variables:                                                       *)
(*   Spec      - the timer cards of a running window (TimerCard and the    *)
(*               timer half of MainWindow), started from a layout file;    *)
(*   SpecLoad  - MainWindow.load_layout / save_layout / closeEvent over a  *)
(*               wide set of layout files;                                 *)
(*   SpecQueue - the audio queue and the media player of MainWindow;       *)
(*   SpecCards - the collection of cards under add and delete;             *)
(*   SpecSave  - the timer cards with the debounced save of the layout;    *)
(*   SpecDownload, SpecDownloadLive - the YtDownloadWorker threads;        *)
(*   SpecAuto  - a queue that plays unattended, track after track;         *)
(*   SpecUrl   - the parsing of URLs and the handling of a submission;     *)
(*   SpecCache - the functions over the cache directory;                   *)
(*   SpecStartup - starts and ends of the program around the downloads;    *)
(*   SpecRace  - workers whose downloads overlap in time.                  *)
(***************************************************************************)
EXTENDS Integers, Sequences, FiniteSets, TLC

VARIABLES
    pc,                 \* "start" | "running" | "crashed" | "closed"
    layout,             \* content of layout.json (a Layout record)
    cards,              \* MainWindow.cards: timer_id -> TimerCard fields
    card_order,         \* MainWindow.card_order
    uuid_count,         \* number of uuid4() values drawn so far
    runs,               \* number of times the program was started
    cleanup_passes,     \* history: calls of cleanup_all_partial_cache_files in this run
    save_timer_active,  \* MainWindow.save_timer is running (a save is queued)
    save_timer_left,    \* milliseconds until save_timer fires, 0 when it is not running
    save_hist,          \* history of queue_save and save_layout (see NoSaves)
    fresh,              \* history: per card, ticks since a start at remaining = total, or -1
    last,               \* history: the handler that ran last and the state it found
    stack_list,         \* QListWidget items: sequence of QueueEntry
    current_row,        \* QListWidget.currentRow()
    current_queue_id,   \* MainWindow.current_queue_id ("" models None)
    playback_state,     \* QMediaPlayer.playbackState()
    media_source,       \* QMediaPlayer.source() ("" when none was set)
    play_pause_text,    \* text of MainWindow.play_pause_button
    now_playing,        \* text of now_playing_label after "Now playing: "
    music_status,       \* text of the music_status label
    files,              \* paths of the files that exist in the cache directory
    queue_count,        \* number of queue ids handed out by the download workers
    yt_dlp,             \* the yt_dlp module was imported (FALSE: yt_dlp is None)
    workers             \* the YtDownloadWorker objects created in this run

timerVars == <<pc, layout, cards, card_order, uuid_count, runs, cleanup_passes,
               save_timer_active, save_timer_left, save_hist, fresh>>
queueVars == <<stack_list, current_row, current_queue_id, playback_state, media_source,
               play_pause_text, now_playing, music_status, files, queue_count,
               yt_dlp, workers>>
vars == <<timerVars, queueVars, last>>

(***************************************************************************)
(* Bounds of the model.                                                    *)
(***************************************************************************)
MaxCards == 1           \* the user adds timers only while fewer cards exist
MaxUuid == 1            \* uuid4() values available to a run
MaxElapsed == 2         \* a countdown is followed for this many seconds below its total
MaxSpinSeconds == 2     \* largest value entered in a seconds spin box
MaxRuns == 2            \* times the program is started
MaxQueue == 2           \* queue entries handed out in a run
MaxOrder == 3           \* cards, and cards added, where only add and delete act
TimeStepMs == 125       \* milliseconds that pass in one step of time
MaxWorkers == 2         \* download workers created in a run

\* save_timer.setInterval(250)
SAVE_INTERVAL_MS == 250

Max(a, b) == IF a >= b THEN a ELSE b

(***************************************************************************)
(* JSON values as json.loads returns them, and the Python conversions the  *)
(* loader applies to them.  A missing key is JAbsent (dict.get gives None).*)
(***************************************************************************)
JAbsent == [t |-> "absent", n |-> 0, s |-> ""]
JNull == [t |-> "null", n |-> 0, s |-> ""]
JInt(n) == [t |-> "int", n |-> n, s |-> ""]
JStr(s) == [t |-> "str", n |-> 0, s |-> s]
JBool(b) == [t |-> "bool", n |-> IF b THEN 1 ELSE 0, s |-> ""]
JList(len) == [t |-> "list", n |-> len, s |-> ""]

\* Python truth value: None, 0, False, "" and [] are falsy.
Truthy(v) ==
    CASE v.t = "absent" -> FALSE
      [] v.t = "null" -> FALSE
      [] v.t = "int" -> v.n # 0
      [] v.t = "bool" -> v.n # 0
      [] v.t = "str" -> v.s # ""
      [] v.t = "list" -> v.n > 0

\* `x or d`
PyOr(v, d) == IF Truthy(v) THEN v ELSE d

\* Decimal strings int() can parse, within the model's range of numbers.
ParseRange == -9 .. 99
IsNumericStr(s) == \E n \in ParseRange : ToString(n) = s

\* int(x): [ok, val]; ok = FALSE models ValueError / TypeError.
PyInt(v) ==
    CASE v.t = "int" -> [ok |-> TRUE, val |-> v.n]
      [] v.t = "bool" -> [ok |-> TRUE, val |-> v.n]
      [] v.t = "str" ->
            IF IsNumericStr(v.s)
            THEN [ok |-> TRUE, val |-> CHOOSE n \in ParseRange : ToString(n) = v.s]
            ELSE [ok |-> FALSE, val |-> 0]
      [] OTHER -> [ok |-> FALSE, val |-> 0]

\* str(x)
PyStr(v) ==
    CASE v.t = "str" -> v.s
      [] v.t = "int" -> ToString(v.n)
      [] v.t = "bool" -> IF v.n = 1 THEN "True" ELSE "False"
      [] v.t = "list" -> "[...]"
      [] OTHER -> "None"

\* uuid.uuid4().hex: the k-th value drawn in a run; values never repeat.
UuidHex(k) == "u" \o ToString(k)

(***************************************************************************)
(* TimerCard                                                               *)
(***************************************************************************)
\* The QTimer of a card follows is_running (start / stop in set_running).
set_running_keeps_timer(card, running) ==
    [card EXCEPT !.is_running = running /\ card.remaining_seconds > 0]

set_running(card, running) ==
    LET r == running /\ card.remaining_seconds > 0
    IN [card EXCEPT !.is_running = r, !.timer_active = r]

\* TimerCard.__init__(snapshot)
TimerCardInit(snapshot) ==
    LET c == [title |-> snapshot.title,
              total_seconds |-> Max(1, snapshot.total_seconds),
              remaining_seconds |-> Max(0, snapshot.remaining_seconds),
              is_running |-> snapshot.is_running,
              timer_active |-> FALSE]
    IN set_running(c, c.is_running /\ c.remaining_seconds > 0)

apply_new_duration_keeps_progress(card, h, m, s) ==
    LET new_total == h * 3600 + m * 60 + s
    IN set_running([card EXCEPT !.total_seconds = Max(1, new_total)], FALSE)

apply_new_duration(card, h, m, s) ==
    LET new_total == h * 3600 + m * 60 + s
        c1 == [card EXCEPT !.total_seconds = Max(1, new_total)]
        c2 == [c1 EXCEPT !.remaining_seconds = c1.total_seconds]
    IN set_running(c2, FALSE)

toggle_start_pause_no_restart(card) ==
    set_running(card, ~card.is_running)

toggle_start_pause(card) ==
    LET c1 == IF card.remaining_seconds <= 0
              THEN [card EXCEPT !.remaining_seconds = card.total_seconds]
              ELSE card
    IN set_running(c1, ~c1.is_running)

reset_timer(card) ==
    set_running([card EXCEPT !.remaining_seconds = card.total_seconds], FALSE)

on_tick_by_two(card) ==
    LET c1 == [card EXCEPT !.remaining_seconds = Max(0, card.remaining_seconds - 2)]
    IN IF c1.remaining_seconds <= 0 THEN set_running(c1, FALSE) ELSE c1

on_tick(card) ==
    IF card.remaining_seconds <= 0
    THEN set_running([card EXCEPT !.remaining_seconds = 0], FALSE)
    ELSE LET c1 == [card EXCEPT !.remaining_seconds = card.remaining_seconds - 1]
         IN IF c1.remaining_seconds <= 0
            THEN set_running([c1 EXCEPT !.remaining_seconds = 0], FALSE)
            ELSE c1

\* TimerCard.snapshot() as the JSON object asdict() and json.dumps write.
snapshot(id, card) ==
    [isdict |-> TRUE,
     timer_id |-> JStr(id),
     title |-> JStr(card.title),
     total_seconds |-> JInt(card.total_seconds),
     remaining_seconds |-> JInt(card.remaining_seconds),
     is_running |-> JBool(card.is_running)]

\* Idle / Running / Expired of a card.
StateOf(card) ==
    IF card.is_running THEN "Running"
    ELSE IF card.remaining_seconds = 0 THEN "Expired" ELSE "Idle"


(***************************************************************************)
(* MainWindow: the timer collection.  A window state w is the record       *)
(* [cards, order, uuid] of the fields the timer operations read and write. *)
(***************************************************************************)
NoneInt == [some |-> FALSE, val |-> 0]
SomeInt(n) == [some |-> TRUE, val |-> n]

EmptyWindow(uuid) == [cards |-> <<>>, order |-> <<>>, uuid |-> uuid]

\* add_timer_card(title, total_seconds, timer_id, remaining_seconds, is_running);
\* timer_id = "" models None.  The `save` argument is handled by the caller.
add_timer_card_replaces(w, title, total_seconds, timer_id, remaining_seconds, is_running) ==
    LET tid == IF timer_id # "" THEN timer_id ELSE UuidHex(w.uuid + 1)
        uuid == IF timer_id # "" THEN w.uuid ELSE w.uuid + 1
        snap == [title |-> title,
                 total_seconds |-> Max(1, total_seconds),
                 remaining_seconds |->
                     Max(0, IF remaining_seconds.some THEN remaining_seconds.val
                            ELSE total_seconds),
                 is_running |-> is_running]
        card == TimerCardInit(snap)
    IN [cards |-> [id \in DOMAIN w.cards \cup {tid} |->
                       IF id = tid THEN card ELSE w.cards[id]],
        order |-> IF tid \in DOMAIN w.cards THEN w.order ELSE Append(w.order, tid),
        uuid |-> uuid]

add_timer_card(w, title, total_seconds, timer_id, remaining_seconds, is_running) ==
    LET tid == IF timer_id # "" THEN timer_id ELSE UuidHex(w.uuid + 1)
        uuid == IF timer_id # "" THEN w.uuid ELSE w.uuid + 1
        snap == [title |-> title,
                 total_seconds |-> Max(1, total_seconds),
                 remaining_seconds |->
                     Max(0, IF remaining_seconds.some THEN remaining_seconds.val
                            ELSE total_seconds),
                 is_running |-> is_running]
        card == TimerCardInit(snap)
    IN IF tid \in DOMAIN w.cards
       THEN [w EXCEPT !.uuid = uuid]
       ELSE [cards |-> [id \in DOMAIN w.cards \cup {tid} |->
                            IF id = tid THEN card ELSE w.cards[id]],
             order |-> Append(w.order, tid),
             uuid |-> uuid]

\* list.remove(x): drops the first occurrence of x.
ListRemove(seq, x) ==
    IF \E i \in 1 .. Len(seq) : seq[i] = x
    THEN LET k == CHOOSE i \in 1 .. Len(seq) :
                      seq[i] = x /\ \A j \in 1 .. (i - 1) : seq[j] # x
         IN SubSeq(seq, 1, k - 1) \o SubSeq(seq, k + 1, Len(seq))
    ELSE seq

delete_timer_card_keeps_order(w, timer_id) ==
    IF timer_id \notin DOMAIN w.cards
    THEN w
    ELSE [cards |-> [id \in DOMAIN w.cards \ {timer_id} |-> w.cards[id]],
          order |-> w.order,
          uuid |-> w.uuid]

delete_timer_card(w, timer_id) ==
    IF timer_id \notin DOMAIN w.cards
    THEN w
    ELSE [cards |-> [id \in DOMAIN w.cards \ {timer_id} |-> w.cards[id]],
          order |-> ListRemove(w.order, timer_id),
          uuid |-> w.uuid]

(***************************************************************************)
(* Persistence.  A layout file is [kind, timers_t, items]:                 *)
(*   kind     "missing" | "unreadable" | "malformed" | "nonobject" |       *)
(*            "object"                                                     *)
(*   timers_t "absent" | "nonlist" | "list"   (the value of key "timers")  *)
(*   items    the elements of the list; an element is a record of JSON     *)
(*            values, isdict = FALSE for an element that is not an object. *)
(***************************************************************************)
File(kind, timers_t, items) == [kind |-> kind, timers_t |-> timers_t, items |-> items]

\* The payload save_layout serializes.
SaveDoc(w) ==
    LET ids == SelectSeq(w.order, LAMBDA id : id \in DOMAIN w.cards)
    IN File("object", "list", [i \in 1 .. Len(ids) |-> snapshot(ids[i], w.cards[ids[i]])])

\* One iteration of the loop of load_layout over timers_data.
\* acc = [w, loaded, raised].
LoadItem(acc, item) ==
    IF ~item.isdict
    THEN acc
    ELSE LET w == acc.w
             has_id == Truthy(item.timer_id)
             timer_id == IF has_id THEN PyStr(item.timer_id) ELSE UuidHex(w.uuid + 1)
             w1 == IF has_id THEN w ELSE [w EXCEPT !.uuid = w.uuid + 1]
             title == PyStr(PyOr(item.title, JStr("Timer")))
             total == PyInt(PyOr(item.total_seconds, JInt(60)))
             remaining == PyInt(PyOr(item.remaining_seconds, JInt(total.val)))
             is_running == Truthy(item.is_running)
         IN IF ~total.ok \/ ~remaining.ok
            THEN [acc EXCEPT !.w = w1, !.raised = TRUE]
            ELSE [w |-> add_timer_card(w1, title, total.val, timer_id,
                                       SomeInt(remaining.val), is_running),
                  loaded |-> TRUE,
                  raised |-> FALSE]

RECURSIVE LoadItems(_, _, _)
LoadItems(items, i, acc) ==
    IF i > Len(items) \/ acc.raised
    THEN acc
    ELSE LoadItems(items, i + 1, LoadItem(acc, items[i]))

\* The three default timers of load_layout.
SeedDefaults(w) ==
    LET w1 == add_timer_card(w, "1 min", 60, "", NoneInt, FALSE)
        w2 == add_timer_card(w1, "3 min", 180, "", NoneInt, FALSE)
    IN add_timer_card(w2, "1 hour", 3600, "", NoneInt, FALSE)

\* load_layout on a new window: [w, loaded, raised, seeded].
load_layout_always_seeds(file, uuid) ==
    LET timers_t == IF file.kind = "object" THEN file.timers_t ELSE "absent"
        start == [w |-> EmptyWindow(uuid), loaded |-> FALSE, raised |-> FALSE]
        acc == IF timers_t = "list" /\ Len(file.items) > 0
               THEN LoadItems(file.items, 1, start)
               ELSE start
    IN IF acc.raised
       THEN [w |-> acc.w, loaded |-> acc.loaded, raised |-> TRUE, seeded |-> FALSE]
       ELSE [w |-> SeedDefaults(acc.w), loaded |-> acc.loaded, raised |-> FALSE,
             seeded |-> TRUE]

load_layout(file, uuid) ==
    LET timers_t == IF file.kind = "object" THEN file.timers_t ELSE "absent"
        start == [w |-> EmptyWindow(uuid), loaded |-> FALSE, raised |-> FALSE]
        acc == IF timers_t = "list" /\ Len(file.items) > 0
               THEN LoadItems(file.items, 1, start)
               ELSE start
    IN IF acc.raised
       THEN [w |-> acc.w, loaded |-> acc.loaded, raised |-> TRUE, seeded |-> FALSE]
       ELSE IF acc.loaded
            THEN [w |-> acc.w, loaded |-> TRUE, raised |-> FALSE, seeded |-> FALSE]
            ELSE [w |-> SeedDefaults(acc.w), loaded |-> FALSE, raised |-> FALSE,
                  seeded |-> TRUE]


(***************************************************************************)
(* Inputs of the model.                                                    *)
(***************************************************************************)
Item(timer_id, title, total_seconds, remaining_seconds, is_running) ==
    [isdict |-> TRUE, timer_id |-> timer_id, title |-> title,
     total_seconds |-> total_seconds, remaining_seconds |-> remaining_seconds,
     is_running |-> is_running]

NotADict == [isdict |-> FALSE, timer_id |-> JAbsent, title |-> JAbsent,
             total_seconds |-> JAbsent, remaining_seconds |-> JAbsent,
             is_running |-> JAbsent]

\* Layout files a timer run starts from: a running timer of two seconds
\* stored with three seconds left, and a running timer of two seconds with
\* one second left next to an idle timer of one second.
RuntimeFiles ==
    {File("object", "list",
          <<Item(JStr("a"), JStr("Tea"), JInt(2), JInt(3), JBool(TRUE))>>),
     File("object", "list",
          <<Item(JStr("a"), JStr("Tea"), JInt(2), JInt(1), JBool(TRUE)),
            Item(JStr("b"), JStr("Timer"), JInt(1), JInt(1), JBool(FALSE))>>)}

\* Layout files of the loader's specification: every kind of file, and lists
\* of one or two elements whose fields range over absent, null, integers,
\* strings, booleans and lists.
LoadIds == {JAbsent, JStr("a"), JInt(7)}
LoadTitles == {JAbsent, JStr("Tea")}
LoadTotals == {JAbsent, JInt(0), JInt(2), JInt(-1), JStr("3"), JStr("abc")}
LoadRemainings == {JAbsent, JNull, JInt(0), JInt(1), JInt(3), JInt(-1), JList(1)}
LoadFlags == {JAbsent, JBool(TRUE), JBool(FALSE)}

LoadItemsDomain ==
    {Item(i, ti, to, re, fl) :
        i \in LoadIds, ti \in LoadTitles, to \in LoadTotals,
        re \in LoadRemainings, fl \in LoadFlags}
    \cup {NotADict}

LoadFiles ==
    {File(k, "absent", <<>>) : k \in {"missing", "unreadable", "malformed", "nonobject", "object"}}
    \cup {File("object", "nonlist", <<>>), File("object", "list", <<>>)}
    \cup {File("object", "list", <<a>>) : a \in LoadItemsDomain}
    \cup {File("object", "list", <<a, b>>) :
              a \in {Item(JStr("a"), JStr("Tea"), JInt(2), JInt(1), JBool(TRUE)), NotADict},
              b \in LoadItemsDomain}

\* Text typed into the timer-name field, and str.strip() of it.
TitleInputs == {"", "  ", "Tea"}
Strip(s) ==
    CASE s = "  " -> ""
      [] s = "dQw4w9WgXcQ\n" -> "dQw4w9WgXcQ"
      [] OTHER -> s

SpinHours == {0}
SpinMinutes == {0}
SpinSeconds == 0 .. MaxSpinSeconds

\* The preset buttons "1 min", "3 min", "1 hour".
Presets == {<<"1 min", 60>>, <<"3 min", 180>>, <<"1 hour", 3600>>}

(***************************************************************************)
(* The cache directory.  files is the set of the paths of its entries.     *)
(* The name of an entry is a stem and an extension; CacheNames lists the   *)
(* extensions that occur, in the order sorted() gives the names of one     *)
(* stem, each with the suffix name.lower() ends in and with is_file().     *)
(***************************************************************************)
\* The identifiers of two videos.
VidA == "dQw4w9WgXcQ"
VidB == "a_b-c_d-e_f"
VideoIds == {VidA, VidB}

PARTIAL_CACHE_SUFFIXES == {".part", ".ytdl", ".tmp", ".temp"}

CacheNames ==
    <<[ext |-> ".dir", lower_suffix |-> ".dir", is_file |-> FALSE],
      [ext |-> ".dir.part", lower_suffix |-> ".part", is_file |-> FALSE],
      [ext |-> ".m4a", lower_suffix |-> ".m4a", is_file |-> TRUE],
      [ext |-> ".m4a.PART", lower_suffix |-> ".part", is_file |-> TRUE],
      [ext |-> ".m4a.part", lower_suffix |-> ".part", is_file |-> TRUE],
      [ext |-> ".m4a.ytdl", lower_suffix |-> ".ytdl", is_file |-> TRUE],
      [ext |-> ".temp", lower_suffix |-> ".temp", is_file |-> TRUE],
      [ext |-> ".tmp", lower_suffix |-> ".tmp", is_file |-> TRUE],
      [ext |-> ".webm", lower_suffix |-> ".webm", is_file |-> TRUE]>>

\* Stems of entries: the videos, and two files that belong to no video.
Stems == VideoIds \cup {"notes", "cover"}

CachePath(video_id) == "cache/" \o video_id \o ".m4a"
PartialPath(video_id) == "cache/" \o video_id \o ".m4a.part"
WebmPath(video_id) == "cache/" \o video_id \o ".webm"
YtdlPath(video_id) == "cache/" \o video_id \o ".m4a.ytdl"

\* sorted(cache_dir.glob(f"{video_id}.*")), were every name there.
Candidates(video_id) ==
    [i \in 1 .. Len(CacheNames) |-> "cache/" \o video_id \o CacheNames[i].ext]

\* Every entry there can be: its path, its stem and its place in CacheNames.
DirEntries ==
    {[path |-> "cache/" \o s \o CacheNames[i].ext, stem |-> s, i |-> i] :
         s \in Stems, i \in 1 .. Len(CacheNames)}

\* The stem and the extension of a path.
EntryOf(path) == CHOOSE e \in DirEntries : e.path = path

\* path.is_file()
is_file(path) == CacheNames[EntryOf(path).i].is_file

\* path.name.lower().endswith(PARTIAL_CACHE_SUFFIXES)
IsPartial(path) == CacheNames[EntryOf(path).i].lower_suffix \in PARTIAL_CACHE_SUFFIXES

find_cached_audio_first_match(existing, video_id) ==
    LET c == Candidates(video_id)
        hits == {i \in 1 .. Len(c) : c[i] \in existing /\ is_file(c[i])}
    IN IF hits = {} THEN ""
       ELSE c[CHOOSE i \in hits : \A j \in hits : i <= j]

\* find_cached_audio: "" models None.
find_cached_audio(existing, video_id) ==
    LET c == Candidates(video_id)
        hits == {i \in 1 .. Len(c) : c[i] \in existing /\ is_file(c[i]) /\ ~IsPartial(c[i])}
    IN IF hits = {} THEN ""
       ELSE c[CHOOSE i \in hits : \A j \in hits : i <= j]

cleanup_partial_cache_files_whole_video(existing, video_id, locked) ==
    existing \ {p \in existing : /\ EntryOf(p).stem = video_id
                                 /\ is_file(p)
                                 /\ p \notin locked}

\* cleanup_partial_cache_files: the entries that are left; locked are the
\* paths for which unlink raises.
cleanup_partial_cache_files(existing, video_id, locked) ==
    existing \ {p \in existing : /\ EntryOf(p).stem = video_id
                                 /\ is_file(p)
                                 /\ IsPartial(p)
                                 /\ p \notin locked}

\* The paths of a directory for which cleanup_all_partial_cache_files
\* calls unlink.
Unlinked(existing) == {p \in existing : is_file(p) /\ IsPartial(p)}

\* cleanup_all_partial_cache_files
cleanup_all_partial_cache_files(existing, locked) ==
    existing \ {p \in existing : is_file(p) /\ IsPartial(p) /\ p \notin locked}

(***************************************************************************)
(* Actions of the timer dashboard.                                         *)
(***************************************************************************)
Window == [cards |-> cards, order |-> card_order, uuid |-> uuid_count]

NoOp == [op |-> "none", id |-> "", pre |-> ""]

\* History of the debounced save:
\*   since  milliseconds since the last queue_save, at most SAVE_INTERVAL_MS
\*   calls  queue_save calls since save_timer last fired (0, 1, 2 = several)
\*   writes save_layout runs started by save_timer since the last queue_save
\*   ok     the last save_layout wrote the file
NoSaves == [since |-> SAVE_INTERVAL_MS, calls |-> 0, writes |-> 0, ok |-> TRUE]

\* QTimer.start() of the single-shot save_timer: the time left until it
\* fires, given the time that was left (0 when it was not running).
queue_save_no_restart(left) == IF left > 0 THEN left ELSE SAVE_INTERVAL_MS

queue_save(left) == SAVE_INTERVAL_MS

\* A handler calls queue_save.
QueueSave ==
    /\ save_timer_active' = TRUE
    /\ save_timer_left' = queue_save(save_timer_left)
    /\ save_hist' = [save_hist EXCEPT !.since = 0,
                                      !.calls = IF save_hist.calls = 0 THEN 1 ELSE 2,
                                      !.writes = 0]

QueueInit ==
    /\ stack_list = <<>>
    /\ current_row = -1
    /\ current_queue_id = ""
    /\ playback_state = "Stopped"
    /\ media_source = ""
    /\ play_pause_text = "Play"
    /\ now_playing = "(none)"
    /\ music_status = "Ready."
    /\ files = {}
    /\ queue_count = 0
    /\ yt_dlp = TRUE
    /\ workers = <<>>

TimerInit(startFiles) ==
    /\ pc = "start"
    /\ layout \in startFiles
    /\ cards = <<>>
    /\ card_order = <<>>
    /\ uuid_count = 0
    /\ runs = 0
    /\ cleanup_passes = 0
    /\ save_timer_active = FALSE
    /\ save_timer_left = 0
    /\ save_hist = NoSaves
    /\ fresh = <<>>
    /\ last = NoOp

\* save_layout: write_text may fail; the file is then left as it was.
WriteLayout(w, write_ok) == IF write_ok THEN SaveDoc(w) ELSE layout

SetWindow(w) ==
    /\ cards' = w.cards
    /\ card_order' = w.order
    /\ uuid_count' = w.uuid

\* A new process has no queue, no player source and no workers; the cache
\* directory stays, and so do the counters that stand for uuid4.
NewProcess ==
    /\ stack_list' = <<>>
    /\ current_row' = -1
    /\ current_queue_id' = ""
    /\ playback_state' = "Stopped"
    /\ media_source' = ""
    /\ play_pause_text' = "Play"
    /\ now_playing' = "(none)"
    /\ music_status' = "Ready."
    /\ workers' = <<>>
    /\ UNCHANGED <<queue_count, yt_dlp>>

\* MainWindow.__init__, line 490: the cleanup of the whole cache directory.
StartupCleanup ==
    \E locked \in SUBSET Unlinked(files) :
        files' = cleanup_all_partial_cache_files(files, locked)

Launch_without_cleanup ==
    /\ pc = "start"
    /\ \E write_ok \in BOOLEAN :
        LET r == load_layout(layout, uuid_count)
        IN /\ pc' = IF r.raised THEN "crashed" ELSE "running"
           /\ SetWindow(r.w)
           /\ layout' = IF r.seeded THEN WriteLayout(r.w, write_ok) ELSE layout
           /\ fresh' = [id \in DOMAIN r.w.cards |-> -1]
           /\ last' = [op |-> "load", id |-> "",
                       pre |-> IF ~r.seeded THEN "restored"
                               ELSE IF write_ok THEN "seeded_written"
                               ELSE "seeded_unwritten"]
           /\ save_hist' = [save_hist EXCEPT !.ok = IF r.seeded THEN write_ok ELSE @]
    /\ runs' = runs + 1
    /\ UNCHANGED <<cleanup_passes, save_timer_active, save_timer_left, queueVars>>

\* MainWindow.__init__: the cleanup of the cache directory, then
\* load_layout on the layout file.
Launch ==
    /\ pc = "start"
    /\ \E write_ok \in BOOLEAN :
        LET r == load_layout(layout, uuid_count)
        IN /\ pc' = IF r.raised THEN "crashed" ELSE "running"
           /\ SetWindow(r.w)
           /\ layout' = IF r.seeded THEN WriteLayout(r.w, write_ok) ELSE layout
           /\ fresh' = [id \in DOMAIN r.w.cards |-> -1]
           /\ last' = [op |-> "load", id |-> "",
                       pre |-> IF ~r.seeded THEN "restored"
                               ELSE IF write_ok THEN "seeded_written"
                               ELSE "seeded_unwritten"]
           /\ save_hist' = [save_hist EXCEPT !.ok = IF r.seeded THEN write_ok ELSE @]
    /\ runs' = runs + 1
    /\ cleanup_passes' = cleanup_passes + 1
    /\ StartupCleanup
    /\ NewProcess
    /\ UNCHANGED <<save_timer_active, save_timer_left>>

\* The program is started again on the file the last run left.
Relaunch ==
    /\ pc = "closed"
    /\ runs < MaxRuns
    /\ runs' = runs + 1
    /\ cleanup_passes' = 1
    /\ StartupCleanup
    /\ NewProcess
    /\ \E write_ok \in BOOLEAN :
        LET r == load_layout(layout, uuid_count)
        IN /\ pc' = IF r.raised THEN "crashed" ELSE "running"
           /\ SetWindow(r.w)
           /\ layout' = IF r.seeded THEN WriteLayout(r.w, write_ok) ELSE layout
           /\ fresh' = [id \in DOMAIN r.w.cards |-> -1]
           /\ last' = [op |-> "load", id |-> "",
                       pre |-> IF ~r.seeded THEN "restored"
                               ELSE IF write_ok THEN "seeded_written"
                               ELSE "seeded_unwritten"]
           /\ save_hist' = [NoSaves EXCEPT !.ok = IF r.seeded THEN write_ok ELSE TRUE]
    /\ save_timer_active' = FALSE
    /\ save_timer_left' = 0

\* closeEvent: save_layout, then the window closes.
CloseEvent ==
    /\ pc = "running"
    /\ \E write_ok \in BOOLEAN :
           /\ layout' = WriteLayout(Window, write_ok)
           /\ save_hist' = [save_hist EXCEPT !.ok = write_ok]
    /\ pc' = "closed"
    /\ last' = [op |-> "close", id |-> "", pre |-> ""]
    /\ UNCHANGED <<cards, card_order, uuid_count, runs, cleanup_passes,
                   save_timer_active, save_timer_left, fresh, queueVars>>

\* A preset button: add_timer_card(title, seconds).
AddPresetTimerWithin(max_cards, max_uuid) ==
    /\ pc = "running"
    /\ Len(card_order) < max_cards
    /\ uuid_count < max_uuid
    /\ \E p \in Presets :
        LET w == add_timer_card(Window, p[1], p[2], "", NoneInt, FALSE)
        IN /\ SetWindow(w)
           /\ fresh' = [id \in DOMAIN w.cards |-> IF id \in DOMAIN fresh THEN fresh[id] ELSE -1]
    /\ QueueSave
    /\ last' = [op |-> "add", id |-> UuidHex(uuid_count + 1), pre |-> ""]
    /\ UNCHANGED <<pc, layout, runs, cleanup_passes, queueVars>>

AddPresetTimer == AddPresetTimerWithin(MaxCards, MaxUuid)

\* add_custom_timer
AddCustomTimerWithin(max_cards, max_uuid) ==
    /\ pc = "running"
    /\ Len(card_order) < max_cards
    /\ uuid_count < max_uuid
    /\ \E text \in TitleInputs, h \in SpinHours, m \in SpinMinutes, s \in SpinSeconds :
        LET total == h * 3600 + m * 60 + s
            title == IF Strip(text) # "" THEN Strip(text) ELSE "Timer"
            w == add_timer_card(Window, title, total, "", NoneInt, FALSE)
        IN IF total <= 0
           THEN /\ UNCHANGED <<cards, card_order, uuid_count, save_timer_active,
                               save_timer_left, save_hist, fresh>>
                /\ last' = [op |-> "add_rejected", id |-> "", pre |-> ""]
           ELSE /\ SetWindow(w)
                /\ fresh' = [id \in DOMAIN w.cards |->
                                IF id \in DOMAIN fresh THEN fresh[id] ELSE -1]
                /\ QueueSave
                /\ last' = [op |-> "add", id |-> UuidHex(uuid_count + 1), pre |-> ""]
    /\ UNCHANGED <<pc, layout, runs, cleanup_passes, queueVars>>

AddCustomTimer == AddCustomTimerWithin(MaxCards, MaxUuid)

\* The X button of a card: delete_requested -> delete_timer_card.
DeleteTimerCard(id) ==
    /\ pc = "running"
    /\ id \in DOMAIN cards
    /\ LET w == delete_timer_card(Window, id)
       IN /\ SetWindow(w)
          /\ fresh' = [i \in DOMAIN w.cards |-> fresh[i]]
    /\ QueueSave
    /\ last' = [op |-> "delete", id |-> id, pre |-> StateOf(cards[id])]
    /\ UNCHANGED <<pc, layout, runs, cleanup_passes, queueVars>>

\* A handler of one card: the card changes, changed is emitted (queue_save).
CardStep_without_changed(id, card, op, f) ==
    /\ cards' = [cards EXCEPT ![id] = card]
    /\ fresh' = [fresh EXCEPT ![id] = f]
    /\ last' = [op |-> op, id |-> id, pre |-> StateOf(cards[id])]
    /\ UNCHANGED <<pc, layout, card_order, uuid_count, runs, cleanup_passes, save_timer_active,
                   save_timer_left, save_hist, queueVars>>

CardStep(id, card, op, f) ==
    /\ cards' = [cards EXCEPT ![id] = card]
    /\ fresh' = [fresh EXCEPT ![id] = f]
    /\ QueueSave
    /\ last' = [op |-> op, id |-> id, pre |-> StateOf(cards[id])]
    /\ UNCHANGED <<pc, layout, card_order, uuid_count, runs, cleanup_passes, queueVars>>

\* The Play / Pause button of a card.
ToggleStartPause(id) ==
    /\ pc = "running"
    /\ id \in DOMAIN cards
    /\ LET c == toggle_start_pause(cards[id])
       IN CardStep(id, c, "toggle",
                   IF c.is_running /\ c.remaining_seconds = c.total_seconds THEN 0 ELSE -1)

\* The Reset button of a card.
ResetTimer(id) ==
    /\ pc = "running"
    /\ id \in DOMAIN cards
    /\ CardStep(id, reset_timer(cards[id]), "reset", -1)

\* The Set button of a card, with the values of its spin boxes.
ApplyNewDuration(id, h, m, s) ==
    /\ pc = "running"
    /\ id \in DOMAIN cards
    /\ CardStep(id, apply_new_duration(cards[id], h, m, s), "set", -1)

\* timeout of a card's QTimer, once per second while the timer is active.
OnTick(id) ==
    /\ pc = "running"
    /\ id \in DOMAIN cards
    /\ cards[id].timer_active
    /\ cards[id].total_seconds - cards[id].remaining_seconds < MaxElapsed
    /\ CardStep(id, on_tick(cards[id]), "tick",
                IF fresh[id] >= 0 THEN fresh[id] + 1 ELSE -1)

TimerIds == {"a", "b", "7"} \cup {UuidHex(k) : k \in 1 .. (MaxUuid + 3)}

Init == TimerInit(RuntimeFiles) /\ QueueInit

Next ==
    \/ Launch
    \/ CloseEvent
    \/ AddPresetTimer
    \/ AddCustomTimer
    \/ \E id \in TimerIds : DeleteTimerCard(id)
    \/ \E id \in TimerIds : ToggleStartPause(id)
    \/ \E id \in TimerIds : ResetTimer(id)
    \/ \E id \in TimerIds, h \in SpinHours, m \in SpinMinutes, s \in SpinSeconds :
           ApplyNewDuration(id, h, m, s)
    \/ \E id \in TimerIds : OnTick(id)

Spec == Init /\ [][Next]_vars

InitLoad == TimerInit(LoadFiles) /\ QueueInit

NextLoad ==
    \/ Launch
    \/ CloseEvent
    \/ Relaunch

SpecLoad == InitLoad /\ [][NextLoad]_vars

\* Time passes in the running window.  save_timer fires in the step in
\* which its interval ends: save_layout writes the timers as they are then.
AdvanceTime ==
    /\ pc = "running"
    /\ save_timer_left > 0 \/ save_hist.since < SAVE_INTERVAL_MS
    /\ LET left == Max(0, save_timer_left - TimeStepMs)
           since == IF save_hist.since + TimeStepMs >= SAVE_INTERVAL_MS
                    THEN SAVE_INTERVAL_MS
                    ELSE save_hist.since + TimeStepMs
       IN /\ save_timer_left' = left
          /\ IF save_timer_active /\ left = 0
             THEN \E write_ok \in BOOLEAN :
                    /\ layout' = WriteLayout(Window, write_ok)
                    /\ save_timer_active' = FALSE
                    /\ save_hist' = [since |-> since, calls |-> 0,
                                     writes |-> save_hist.writes + 1, ok |-> write_ok]
                    /\ last' = [op |-> "save_timeout", id |-> "",
                                pre |-> IF save_hist.calls > 1 THEN "burst" ELSE "single"]
             ELSE /\ save_hist' = [save_hist EXCEPT !.since = since]
                  /\ last' = [op |-> "time", id |-> "", pre |-> ""]
                  /\ UNCHANGED <<layout, save_timer_active>>
    /\ UNCHANGED <<pc, cards, card_order, uuid_count, runs, cleanup_passes, fresh, queueVars>>

\* The timers of a running window with the debounced save: a window of one
\* card at a time, to which one card is added in a run.
InitSave ==
    /\ TimerInit({File("object", "list",
                       <<Item(JStr("a"), JStr("Tea"), JInt(2), JInt(1), JBool(TRUE))>>)})
    /\ QueueInit

NextSave ==
    \/ Launch
    \/ CloseEvent
    \/ AdvanceTime
    \/ AddPresetTimerWithin(1, 1)
    \/ AddCustomTimerWithin(1, 1)
    \/ \E id \in TimerIds : DeleteTimerCard(id)
    \/ \E id \in TimerIds : ToggleStartPause(id)
    \/ \E id \in TimerIds : ResetTimer(id)
    \/ \E id \in TimerIds, h \in SpinHours, m \in SpinMinutes, s \in SpinSeconds :
           ApplyNewDuration(id, h, m, s)
    \/ \E id \in TimerIds : OnTick(id)

SpecSave == InitSave /\ [][NextSave]_vars

\* The collection of cards under add and delete only: a window restored with
\* the cards a and b, to which the user adds and from which the user deletes.
InitCards ==
    /\ TimerInit({File("object", "list",
                       <<Item(JStr("a"), JStr("Tea"), JInt(2), JInt(1), JBool(TRUE)),
                         Item(JStr("b"), JStr("Timer"), JInt(1), JInt(1), JBool(FALSE))>>)})
    /\ QueueInit

NextCards ==
    \/ Launch
    \/ AddPresetTimerWithin(MaxOrder, MaxOrder)
    \/ AddCustomTimerWithin(MaxOrder, MaxOrder)
    \/ \E id \in TimerIds : DeleteTimerCard(id)

SpecCards == InitCards /\ [][NextCards]_vars


(***************************************************************************)
(* MainWindow: the audio queue.  A queue state q is the record of the      *)
(* fields the queue handlers read and write: the items of stack_list and   *)
(* its current row, current_queue_id, the state and source of the media    *)
(* player and the texts of the button and the labels.  Rows count from 0   *)
(* as in Qt; "" models None.                                               *)
(***************************************************************************)
Queue == [stack_list |-> stack_list, current_row |-> current_row,
          current_queue_id |-> current_queue_id, playback_state |-> playback_state,
          media_source |-> media_source, play_pause_text |-> play_pause_text,
          now_playing |-> now_playing, music_status |-> music_status]

Count(q) == Len(q.stack_list)
ItemAt(q, row) == q.stack_list[row + 1]

selected_or_first_row(q) ==
    IF q.current_row < 0 /\ Count(q) > 0 THEN 0 ELSE q.current_row

find_current_row(q) ==
    IF q.current_queue_id # ""
       /\ \E row \in 0 .. (Count(q) - 1) : ItemAt(q, row).queue_id = q.current_queue_id
    THEN CHOOSE row \in 0 .. (Count(q) - 1) :
             /\ ItemAt(q, row).queue_id = q.current_queue_id
             /\ \A r \in 0 .. (row - 1) : ItemAt(q, r).queue_id # q.current_queue_id
    ELSE selected_or_first_row(q)

play_row_unchecked(q, row, existing) ==
    IF row < 0 \/ row >= Count(q)
    THEN [q EXCEPT !.music_status = "Select an item to play."]
    ELSE LET entry == ItemAt(q, row)
         IN [q EXCEPT !.media_source = entry.file_path,
                      !.playback_state = "Playing",
                      !.current_queue_id = entry.queue_id,
                      !.current_row = row,
                      !.play_pause_text = "Pause",
                      !.now_playing = entry.title,
                      !.music_status = "Playing: " \o entry.title]

play_row(q, row, existing) ==
    IF row < 0 \/ row >= Count(q)
    THEN [q EXCEPT !.music_status = "Select an item to play."]
    ELSE LET entry == ItemAt(q, row)
         IN IF entry.file_path \notin existing
            THEN [q EXCEPT !.music_status = "Cached file missing. Remove and add URL again."]
            ELSE [q EXCEPT !.media_source = entry.file_path,
                           !.playback_state = "Playing",
                           !.current_queue_id = entry.queue_id,
                           !.current_row = row,
                           !.play_pause_text = "Pause",
                           !.now_playing = entry.title,
                           !.music_status = "Playing: " \o entry.title]

play_selected_item(q, existing) == play_row(q, selected_or_first_row(q), existing)

toggle_play_pause(q, existing) ==
    IF q.playback_state = "Playing"
    THEN [q EXCEPT !.playback_state = "Paused", !.play_pause_text = "Play"]
    ELSE IF q.current_queue_id = ""
         THEN play_selected_item(q, existing)
         ELSE [q EXCEPT !.playback_state = "Playing", !.play_pause_text = "Pause"]

stop_playback_keeps_current(q) ==
    [q EXCEPT !.playback_state = "Stopped",
              !.play_pause_text = "Play",
              !.now_playing = "(none)",
              !.music_status = "Stopped."]

stop_playback(q) ==
    [q EXCEPT !.playback_state = "Stopped",
              !.play_pause_text = "Play",
              !.now_playing = "(none)",
              !.current_queue_id = "",
              !.music_status = "Stopped."]

play_next_wraps(q, auto_triggered, existing) ==
    LET row == find_current_row(q)
    IN IF row < 0
       THEN [q EXCEPT !.music_status = "Queue is empty."]
       ELSE play_row(q, (row + 1) % Count(q), existing)

play_next(q, auto_triggered, existing) ==
    LET row == find_current_row(q)
        next_row == row + 1
    IN IF row < 0
       THEN [q EXCEPT !.music_status = "Queue is empty."]
       ELSE IF next_row >= Count(q)
            THEN IF auto_triggered
                 THEN [q EXCEPT !.play_pause_text = "Play",
                                !.music_status = "Reached end of queue."]
                 ELSE [q EXCEPT !.play_pause_text = "Play"]
            ELSE play_row(q, next_row, existing)

play_previous(q, existing) ==
    LET row == find_current_row(q)
    IN IF row <= 0
       THEN [q EXCEPT !.music_status = "No previous item."]
       ELSE play_row(q, row - 1, existing)

\* QListWidget.takeItem(row): the item leaves the list; when it was the
\* current item the view makes the next item current, else the previous one.
TakeItem(q, row) ==
    LET n == Count(q)
        items == SubSeq(q.stack_list, 1, row) \o SubSeq(q.stack_list, row + 2, n)
        cur == IF q.current_row = row
               THEN (IF row < n - 1 THEN row ELSE row - 1)
               ELSE IF q.current_row > row THEN q.current_row - 1 ELSE q.current_row
    IN [q EXCEPT !.stack_list = items, !.current_row = cur]

\* QListWidget.insertItem(row, item)
InsertItem(q, row, item) ==
    LET n == Count(q)
        items == SubSeq(q.stack_list, 1, row) \o <<item>> \o SubSeq(q.stack_list, row + 1, n)
        cur == IF q.current_row >= row THEN q.current_row + 1 ELSE q.current_row
    IN [q EXCEPT !.stack_list = items, !.current_row = cur]

remove_selected_item_keeps_playing(q) ==
    IF q.current_row < 0
    THEN [q EXCEPT !.music_status = "Select an item to remove."]
    ELSE [TakeItem(q, q.current_row) EXCEPT !.music_status = "Removed item."]

remove_selected_item(q) ==
    LET row == q.current_row
    IN IF row < 0
       THEN [q EXCEPT !.music_status = "Select an item to remove."]
       ELSE LET was_current == ItemAt(q, row).queue_id = q.current_queue_id
                q1 == TakeItem(q, row)
                q2 == IF was_current THEN stop_playback(q1) ELSE q1
            IN [q2 EXCEPT !.music_status = "Removed item."]

move_selected_item_wraps(q, direction) ==
    LET row == q.current_row
        new_row == (row + direction) % Count(q)
    IN IF row < 0
       THEN [q EXCEPT !.music_status = "Select an item to reorder."]
       ELSE LET item == ItemAt(q, row)
                q1 == InsertItem(TakeItem(q, row), new_row, item)
            IN [q1 EXCEPT !.current_row = new_row,
                          !.music_status = "Reordered queue."]

move_selected_item(q, direction) ==
    LET row == q.current_row
        new_row == row + direction
    IN IF row < 0
       THEN [q EXCEPT !.music_status = "Select an item to reorder."]
       ELSE IF new_row < 0 \/ new_row >= Count(q)
            THEN q
            ELSE LET item == ItemAt(q, row)
                     q1 == InsertItem(TakeItem(q, row), new_row, item)
                 IN [q1 EXCEPT !.current_row = new_row,
                               !.music_status = "Reordered queue."]

on_download_finished(q, entry) ==
    LET q1 == [q EXCEPT !.stack_list = Append(q.stack_list, entry),
                        !.music_status = "Added: " \o entry.title]
    IN IF Count(q1) = 1 THEN [q1 EXCEPT !.current_row = 0] ELSE q1

on_end_of_media_loops(q, existing) ==
    play_next_wraps([q EXCEPT !.playback_state = "Stopped"], TRUE, existing)

\* _on_media_status_changed(EndOfMedia): the player has stopped at the end
\* of the track, then play_next(auto_triggered=True).
on_end_of_media(q, existing) ==
    play_next([q EXCEPT !.playback_state = "Stopped"], TRUE, existing)

(***************************************************************************)
(* URLs.  A URL is the record of what urlparse(text.strip()) and parse_qs  *)
(* give for a text: scheme (urlparse lowers it), netloc as the sequence of *)
(* its dot-separated labels, path as the sequence path.split("/"), and v,  *)
(* the values of the query key "v" with the percent escapes decoded and    *)
(* the blank values dropped.  "" models None.                              *)
(***************************************************************************)
\* Texts that occur as path segments and query values besides the two
\* identifiers: one of ten and one of twelve characters, one with a dot, and
\* one that ends in a line feed, which only a query value can (v=...%0A).
ShortId == "dQw4w9WgXc"
LongId == "dQw4w9WgXcQQ"
DottedId == "dQw4w9Wg.cQ"
NewlineId == "dQw4w9WgXcQ\n"

\* The characters of a text.
Chars(s) ==
    CASE s = VidA -> <<"d", "Q", "w", "4", "w", "9", "W", "g", "X", "c", "Q">>
      [] s = VidB -> <<"a", "_", "b", "-", "c", "_", "d", "-", "e", "_", "f">>
      [] s = ShortId -> <<"d", "Q", "w", "4", "w", "9", "W", "g", "X", "c">>
      [] s = LongId -> <<"d", "Q", "w", "4", "w", "9", "W", "g", "X", "c", "Q", "Q">>
      [] s = DottedId -> <<"d", "Q", "w", "4", "w", "9", "W", "g", ".", "c", "Q">>
      [] s = NewlineId -> <<"d", "Q", "w", "4", "w", "9", "W", "g", "X", "c", "Q", "\n">>
      [] s = "watch" -> <<"w", "a", "t", "c", "h">>
      [] s = "shorts" -> <<"s", "h", "o", "r", "t", "s">>
      [] s = "embed" -> <<"e", "m", "b", "e", "d">>
      [] s = "live" -> <<"l", "i", "v", "e">>
      [] s = "v" -> <<"v">>
      [] s = "x" -> <<"x">>
      [] s = "" -> <<>>

\* [A-Za-z0-9_-]
IdChars ==
    {"A", "B", "C", "D", "E", "F", "G", "H", "I", "J", "K", "L", "M",
     "N", "O", "P", "Q", "R", "S", "T", "U", "V", "W", "X", "Y", "Z",
     "a", "b", "c", "d", "e", "f", "g", "h", "i", "j", "k", "l", "m",
     "n", "o", "p", "q", "r", "s", "t", "u", "v", "w", "x", "y", "z",
     "0", "1", "2", "3", "4", "5", "6", "7", "8", "9", "_", "-"}

\* VIDEO_ID_PATTERN.match(s) for ^[A-Za-z0-9_-]{11}$: eleven characters of
\* the class, then the end of the text or a line feed that ends the text.
VIDEO_ID_PATTERN_match(s) ==
    LET c == Chars(s)
    IN /\ Len(c) >= 11
       /\ \A i \in 1 .. 11 : c[i] \in IdChars
       /\ Len(c) = 11 \/ (Len(c) = 12 /\ c[12] = "\n")

\* str.lower() of a label of a host name.
Lower(label) ==
    CASE label = "WWW" -> "www"
      [] label = "YouTube" -> "youtube"
      [] OTHER -> label

\* The empty text; a text with an unbalanced bracket, for which urlparse
\* raises ValueError.
EmptyUrl == [scheme |-> "", netloc |-> <<>>, path |-> <<"">>, v |-> <<>>]
urlparse_raises(url) == \E i \in 1 .. Len(url.netloc) : url.netloc[i] = "[bad"

\* host: netloc in lower case without a leading "www."
HostOf(url) ==
    LET lowered == [i \in 1 .. Len(url.netloc) |-> Lower(url.netloc[i])]
    IN IF Len(lowered) > 1 /\ lowered[1] = "www" THEN Tail(lowered) ELSE lowered

extract_video_id(url) ==
    IF urlparse_raises(url) THEN ""
    ELSE LET host == HostOf(url)
             path_parts == SelectSeq(url.path, LAMBDA p : p # "")
             video_id ==
                 IF host = <<"youtu", "be">>
                 THEN (IF path_parts = <<>> THEN "" ELSE path_parts[1])
                 ELSE IF host \in {<<"youtube", "com">>, <<"m", "youtube", "com">>,
                                   <<"music", "youtube", "com">>}
                 THEN IF url.path = <<"", "watch">>
                      THEN (IF url.v = <<>> THEN "" ELSE url.v[1])
                      ELSE IF Len(path_parts) > 1
                              /\ path_parts[1] \in {"shorts", "embed", "live"}
                           THEN path_parts[2]
                           ELSE ""
                 ELSE ""
         IN IF video_id # "" /\ VIDEO_ID_PATTERN_match(video_id) THEN video_id ELSE ""

is_valid_youtube_url(url) ==
    IF urlparse_raises(url) THEN FALSE
    ELSE IF url.scheme \notin {"http", "https"} THEN FALSE
    ELSE IF HostOf(url) \notin {<<"youtube", "com">>, <<"m", "youtube", "com">>,
                                <<"music", "youtube", "com">>, <<"youtu", "be">>}
    THEN FALSE
    ELSE extract_video_id(url) # ""

\* canonical_watch_url: the record of the text
\* "https://www.youtube.com/watch?v=<video_id>" after strip().
canonical_watch_url(url) ==
    LET video_id == extract_video_id(url)
    IN IF video_id # ""
       THEN [scheme |-> "https", netloc |-> <<"www", "youtube", "com">>,
             path |-> <<"", "watch">>, v |-> <<Strip(video_id)>>]
       ELSE url

\* The URLs submitted and given to workers.
Schemes == {"https", "http", "ftp"}
Netlocs ==
    {<<"youtube", "com">>, <<"www", "youtube", "com">>, <<"m", "youtube", "com">>,
     <<"music", "youtube", "com">>,
     <<"youtu", "be">>, <<"www", "youtu", "be">>, <<"WWW", "YouTube", "com">>,
     <<"www", "www", "youtube", "com">>, <<"example", "com">>,
     <<"[bad">>, <<>>}
PathIds == {VidA, ShortId, LongId, DottedId}
Paths ==
    {<<"">>, <<"", "watch">>, <<"", "watch", "">>, <<"", "shorts">>,
     <<"", "", VidA>>, <<"", VidA, "x">>, <<"", "shorts", "", VidA>>,
     <<"", "embed", VidA, "x">>, <<"", "v", VidA>>}
    \cup {<<"", id>> : id \in PathIds}
    \cup {<<"", word, id>> : word \in {"shorts", "embed", "live"}, id \in PathIds}
QueryValues ==
    {<<>>, <<VidA>>, <<VidB, VidA>>, <<ShortId>>, <<NewlineId>>}
Urls ==
    {EmptyUrl}
    \cup {[scheme |-> s, netloc |-> n, path |-> p, v |-> q] :
              s \in Schemes, n \in Netlocs, p \in Paths, q \in QueryValues}

(***************************************************************************)
(* Actions of the audio queue.                                             *)
(***************************************************************************)
QueueIdHex(k) == "q" \o ToString(k)

QueueEntry_by_video(k, video_id) ==
    [queue_id |-> video_id, video_id |-> video_id,
     title |-> "Title " \o video_id, file_path |-> CachePath(video_id)]

QueueEntry(k, video_id) ==
    [queue_id |-> QueueIdHex(k), video_id |-> video_id,
     title |-> "Title " \o video_id, file_path |-> CachePath(video_id)]

SetQueue(q) ==
    /\ stack_list' = q.stack_list
    /\ current_row' = q.current_row
    /\ current_queue_id' = q.current_queue_id
    /\ playback_state' = q.playback_state
    /\ media_source' = q.media_source
    /\ play_pause_text' = q.play_pause_text
    /\ now_playing' = q.now_playing
    /\ music_status' = q.music_status

\* Where the row a navigation starts from lies in the queue.
PlaceOf(row, n) ==
    IF row < 0 THEN "none"
    ELSE IF row = n - 1 THEN (IF row = 0 THEN "only" ELSE "last")
    ELSE IF row = 0 THEN "first" ELSE "middle"

QueueStep(q, op, pre) ==
    /\ pc = "running"
    /\ SetQueue(q)
    /\ last' = [op |-> op, id |-> "", pre |-> pre]
    /\ UNCHANGED <<timerVars, files, queue_count, yt_dlp, workers>>

\* A download worker emits finished(entry); the entry's file is in the cache.
DownloadFinished(video_id) ==
    /\ pc = "running"
    /\ queue_count < MaxQueue
    /\ queue_count' = queue_count + 1
    /\ files' = files \cup {CachePath(video_id)}
    /\ SetQueue(on_download_finished(Queue, QueueEntry(queue_count + 1, video_id)))
    /\ last' = [op |-> "added", id |-> "", pre |-> ""]
    /\ UNCHANGED <<timerVars, yt_dlp, workers>>

\* A cached file is deleted from outside the program.
CacheFileDeleted(path) ==
    /\ pc = "running"
    /\ path \in files
    /\ files' = files \ {path}
    /\ last' = [op |-> "file_deleted", id |-> "", pre |-> ""]
    /\ UNCHANGED <<timerVars, stack_list, current_row, current_queue_id, playback_state,
                   media_source, play_pause_text, now_playing, music_status, queue_count,
                   yt_dlp, workers>>

\* The user clicks an item of the list.
SelectRow(row) ==
    /\ row \in 0 .. (Len(stack_list) - 1)
    /\ row # current_row
    /\ QueueStep([Queue EXCEPT !.current_row = row], "select", "")

\* Double click on an item: itemDoubleClicked -> play_selected_item.
PlaySelectedItem(row) ==
    /\ row \in 0 .. (Len(stack_list) - 1)
    /\ QueueStep(play_selected_item([Queue EXCEPT !.current_row = row], files), "play", "")

TogglePlayPause ==
    QueueStep(toggle_play_pause(Queue, files), "toggle_audio", playback_state)

StopPlayback ==
    QueueStep(stop_playback(Queue), "stop", playback_state)

PlayNext ==
    QueueStep(play_next(Queue, FALSE, files), "next",
              PlaceOf(find_current_row(Queue), Len(stack_list)))

PlayPrevious ==
    QueueStep(play_previous(Queue, files), "previous",
              PlaceOf(find_current_row(Queue), Len(stack_list)))

\* The playing track reaches its end.
EndOfMedia ==
    /\ playback_state = "Playing"
    /\ QueueStep(on_end_of_media(Queue, files), "end_of_media",
                 PlaceOf(find_current_row(Queue), Len(stack_list)))

RemoveSelectedItem ==
    QueueStep(remove_selected_item(Queue), "remove",
              IF current_row < 0 THEN "none"
              ELSE IF stack_list[current_row + 1].queue_id = current_queue_id
                   THEN "current" ELSE "other")

MoveSelectedItem(direction) ==
    QueueStep(move_selected_item(Queue, direction), "move",
              IF current_row < 0 THEN "none"
              ELSE IF current_row + direction < 0 \/ current_row + direction >= Len(stack_list)
                   THEN "boundary" ELSE "swap")

\* The window of a first run: no layout file, the three default timers.
FirstRunWindow ==
    /\ pc = "running"
    /\ LET r == load_layout(File("missing", "absent", <<>>), 0)
       IN /\ cards = r.w.cards
          /\ card_order = r.w.order
          /\ uuid_count = r.w.uuid
          /\ layout = SaveDoc(r.w)
          /\ fresh = [id \in DOMAIN r.w.cards |-> -1]
    /\ runs = 1
    /\ cleanup_passes = 1
    /\ save_timer_active = FALSE
    /\ save_timer_left = 0
    /\ save_hist = NoSaves
    /\ last = [op |-> "load", id |-> "", pre |-> "seeded_written"]

InitQueue == FirstRunWindow /\ QueueInit

NextQueue ==
    \/ \E v \in VideoIds : DownloadFinished(v)
    \/ \E v \in VideoIds : CacheFileDeleted(CachePath(v))
    \/ \E row \in 0 .. (MaxQueue - 1) : SelectRow(row)
    \/ \E row \in 0 .. (MaxQueue - 1) : PlaySelectedItem(row)
    \/ TogglePlayPause
    \/ StopPlayback
    \/ PlayNext
    \/ PlayPrevious
    \/ EndOfMedia
    \/ RemoveSelectedItem
    \/ \E direction \in {-1, 1} : MoveSelectedItem(direction)

SpecQueue == InitQueue /\ [][NextQueue]_vars

\* An unattended run: the user fills and arranges the queue, starts the
\* first entry and leaves; from then on only tracks end.  No file is
\* deleted, so the file of every queued entry exists.
Unattended == last.op \in {"play", "end_of_media"}

NextAuto ==
    \/ ~Unattended /\ \E v \in VideoIds : DownloadFinished(v)
    \/ ~Unattended /\ \E row \in 0 .. (MaxQueue - 1) : SelectRow(row)
    \/ ~Unattended /\ \E direction \in {-1, 1} : MoveSelectedItem(direction)
    \/ ~Unattended /\ RemoveSelectedItem
    \/ ~Unattended /\ PlaySelectedItem(0)
    \/ Unattended /\ EndOfMedia

\* Every track that plays reaches its end.
SpecAuto == InitQueue /\ [][NextAuto]_vars /\ WF_vars(Unattended /\ EndOfMedia)

(***************************************************************************)
(* YtDownloadWorker.  A worker wk is a record:                             *)
(*   pc       "created" | "fetched" | "cleaned" | "downloading" | "done" | *)
(*            "crashed" (an exception left run)                            *)
(*   url      the URL the worker was given                                  *)
(*   url_id   extract_video_id(canonical_watch_url(url)), "" = None         *)
(*   video_id the identifier in use after the metadata fetch               *)
(*   cached   what the cache probe returned ("" = None, also before it)    *)
(*   steps    history: the steps run has taken                             *)
(*   emitted  history: the finished / error signals run has emitted        *)
(*   pending  the emitted signal the main thread has not handled yet       *)
(*   writing  history: the paths the download call of run is writing       *)
(*   entry    the QueueEntry of finished; message the text of error        *)
(***************************************************************************)
NoEntry == [queue_id |-> "", video_id |-> "", title |-> "", file_path |-> ""]

NewWorker(url) ==
    [pc |-> "created", url |-> url,
     url_id |-> extract_video_id(canonical_watch_url(url)), video_id |-> "", cached |-> "",
     steps |-> <<>>, emitted |-> <<>>, pending |-> "", writing |-> {},
     entry |-> NoEntry, message |-> ""]

EmitError(wk, message) ==
    [wk EXCEPT !.pc = "done", !.emitted = Append(@, "error"), !.pending = "error",
               !.message = message]

EmitFinished(wk, entry) ==
    [wk EXCEPT !.pc = "done", !.emitted = Append(@, "finished"), !.pending = "finished",
               !.entry = entry]

\* What ydl.extract_info(url, download=False) does: raise, return something
\* that is not a dict, or return a dict with or without an id and with a
\* duration that int() accepts or not.
MetaOutcomes ==
    {[kind |-> "raise", id |-> "", duration_ok |-> TRUE],
     [kind |-> "notdict", id |-> "", duration_ok |-> TRUE]}
    \cup {[kind |-> "dict", id |-> i, duration_ok |-> d] :
              i \in {""} \cup VideoIds, d \in BOOLEAN}

\* run, up to and including the metadata fetch (main.py lines 402-429).
run_metadata_uncaught(wk, installed, info) ==
    IF ~installed
    THEN EmitError(wk, "yt-dlp is not installed. Install with: uv add yt-dlp")
    ELSE IF wk.url_id = ""
    THEN EmitError(wk, "Invalid YouTube URL.")
    ELSE LET w1 == [wk EXCEPT !.steps = Append(@, "metadata")]
         IN IF info.kind = "raise" \/ (info.kind = "dict" /\ ~info.duration_ok)
            THEN [w1 EXCEPT !.pc = "crashed"]
            ELSE IF info.kind = "notdict"
            THEN EmitError(w1, "Failed to read video metadata.")
            ELSE [w1 EXCEPT !.pc = "fetched",
                            !.video_id = IF info.id # "" THEN info.id ELSE wk.url_id]

run_metadata(wk, installed, info) ==
    IF ~installed
    THEN EmitError(wk, "yt-dlp is not installed. Install with: uv add yt-dlp")
    ELSE IF wk.url_id = ""
    THEN EmitError(wk, "Invalid YouTube URL.")
    ELSE LET w1 == [wk EXCEPT !.steps = Append(@, "metadata")]
         IN IF info.kind = "raise"
            THEN EmitError(w1, "extractor error")
            ELSE IF info.kind = "notdict"
            THEN EmitError(w1, "Failed to read video metadata.")
            ELSE IF ~info.duration_ok
            THEN EmitError(w1, "invalid literal for int()")
            ELSE [w1 EXCEPT !.pc = "fetched",
                            !.video_id = IF info.id # "" THEN info.id ELSE wk.url_id]

\* cleanup_partial_cache_files(self.cache_dir, video_id) (line 431).
run_cleanup(wk) == [wk EXCEPT !.pc = "cleaned", !.steps = Append(@, "cleanup")]

\* The cache probe (lines 432-443); k numbers the uuid of a new entry.
run_probe_ignores_cache(wk, existing, k) ==
    [wk EXCEPT !.pc = "downloading", !.steps = Append(@, "probe"),
               !.cached = find_cached_audio(existing, wk.video_id)]

run_probe(wk, existing, k) ==
    LET cached == find_cached_audio(existing, wk.video_id)
        w1 == [wk EXCEPT !.steps = Append(@, "probe"), !.cached = cached]
    IN IF cached # ""
       THEN EmitFinished(w1, [QueueEntry(k, wk.video_id) EXCEPT !.file_path = cached])
       ELSE [w1 EXCEPT !.pc = "downloading"]

\* What ydl.extract_info(url, download=True) and prepare_filename do: raise,
\* write the file they report, write a file under another name than the
\* one they report, or report a file and write none.
DownloadOutcomes == {"raise", "written", "other_name", "nothing"}

\* The files of the cache directory after the download call.
DownloadedFiles(existing, video_id, outcome) ==
    CASE outcome = "written" -> existing \cup {CachePath(video_id)}
      [] outcome = "other_name" -> existing \cup {WebmPath(video_id)}
      [] OTHER -> existing

run_download_unverified(wk, existing, outcome, k) ==
    LET w1 == [wk EXCEPT !.steps = Append(@, "download")]
    IN IF outcome = "raise"
       THEN EmitError(w1, "extractor error")
       ELSE EmitFinished(w1, QueueEntry(k, wk.video_id))

\* run from the download call on (lines 445-476); existing are the files
\* after the call.
run_download(wk, existing, outcome, k) ==
    LET w1 == [wk EXCEPT !.steps = Append(@, "download")]
        downloaded_path == CachePath(wk.video_id)
        fallback == find_cached_audio(existing, wk.video_id)
    IN IF outcome = "raise"
       THEN EmitError(w1, "extractor error")
       ELSE IF downloaded_path \in existing
       THEN EmitFinished(w1, QueueEntry(k, wk.video_id))
       ELSE IF fallback # ""
       THEN EmitFinished(w1, [QueueEntry(k, wk.video_id) EXCEPT !.file_path = fallback])
       ELSE EmitError(w1, "Download finished but no audio file found in cache.")

\* on_download_error
on_download_error(q, message) == [q EXCEPT !.music_status = "Error: " \o message]

(***************************************************************************)
(* Actions of the download workers.                                        *)
(***************************************************************************)
\* Text submitted in the URL field: nothing, something that is no YouTube
\* URL, or a valid URL of the video vidB (whose metadata may name vidA).
UrlInputs ==
    {EmptyUrl,
     [scheme |-> "https", netloc |-> <<"example", "com">>, path |-> <<"", "watch">>,
      v |-> <<VidB>>],
     [scheme |-> "https", netloc |-> <<"youtu", "be">>, path |-> <<"", VidB>>, v |-> <<>>]}

\* Which of its three ways handle_add_url goes for a text.
UrlKind(url) ==
    IF url = EmptyUrl THEN "empty"
    ELSE IF ~is_valid_youtube_url(url) THEN "invalid" ELSE "valid"

WorkerStep(k, wk, status, op) ==
    /\ workers' = [workers EXCEPT ![k] = wk]
    /\ music_status' = status
    /\ queue_count' = IF wk.emitted # <<>> /\ wk.emitted[Len(wk.emitted)] = "finished"
                          /\ workers[k].emitted = <<>>
                      THEN queue_count + 1 ELSE queue_count
    /\ last' = [op |-> op, id |-> "", pre |-> ""]
    /\ UNCHANGED <<timerVars, stack_list, current_row, current_queue_id, playback_state,
                   media_source, play_pause_text, now_playing, yt_dlp>>

HandleAddUrl_unvalidated(url) ==
    /\ pc = "running"
    /\ Len(workers) < MaxWorkers
    /\ IF ~yt_dlp
       THEN music_status' = "yt-dlp not installed. Run: uv add yt-dlp" /\ workers' = workers
       ELSE IF url = EmptyUrl
       THEN music_status' = "Paste a YouTube URL." /\ workers' = workers
       ELSE /\ workers' = Append(workers, NewWorker(url))
            /\ music_status' = "Fetching metadata/download..."
    /\ last' = [op |-> "add_url", id |-> "", pre |-> UrlKind(url)]
    /\ UNCHANGED <<timerVars, stack_list, current_row, current_queue_id, playback_state,
                   media_source, play_pause_text, now_playing, files, queue_count, yt_dlp>>

\* handle_add_url
HandleAddUrl(url) ==
    /\ pc = "running"
    /\ Len(workers) < MaxWorkers
    /\ IF ~yt_dlp
       THEN music_status' = "yt-dlp not installed. Run: uv add yt-dlp" /\ workers' = workers
       ELSE IF url = EmptyUrl
       THEN music_status' = "Paste a YouTube URL." /\ workers' = workers
       ELSE IF ~is_valid_youtube_url(url)
       THEN music_status' = "Invalid YouTube URL." /\ workers' = workers
       ELSE /\ workers' = Append(workers, NewWorker(url))
            /\ music_status' = "Fetching metadata/download..."
    /\ last' = [op |-> "add_url", id |-> "", pre |-> UrlKind(url)]
    /\ UNCHANGED <<timerVars, stack_list, current_row, current_queue_id, playback_state,
                   media_source, play_pause_text, now_playing, files, queue_count, yt_dlp>>

\* thread.started -> run, up to the metadata fetch.
WorkerFetchMetadata(k, info) ==
    /\ pc = "running"
    /\ k \in 1 .. Len(workers)
    /\ workers[k].pc = "created"
    /\ LET wk == run_metadata(workers[k], yt_dlp, info)
       IN WorkerStep(k, wk,
                     IF wk.steps # <<>> THEN "Fetching metadata..." ELSE music_status,
                     "metadata")
    /\ files' = files

\* The worker deletes the partial files of its video; every unlink succeeds.
WorkerCleanup(k) ==
    /\ pc = "running"
    /\ k \in 1 .. Len(workers)
    /\ workers[k].pc = "fetched"
    /\ WorkerStep(k, run_cleanup(workers[k]), music_status, "cleanup")
    /\ files' = cleanup_partial_cache_files(files, workers[k].video_id, {})

WorkerProbe(k) ==
    /\ pc = "running"
    /\ k \in 1 .. Len(workers)
    /\ workers[k].pc = "cleaned"
    /\ LET wk == run_probe(workers[k], files, queue_count + 1)
       IN WorkerStep(k, wk,
                     IF wk.pc = "downloading" THEN "Downloading audio..." ELSE music_status,
                     "probe")
    /\ files' = files

WorkerDownload(k, outcome) ==
    /\ pc = "running"
    /\ k \in 1 .. Len(workers)
    /\ workers[k].pc = "downloading"
    /\ LET existing == DownloadedFiles(files, workers[k].video_id, outcome)
       IN /\ files' = existing
          /\ WorkerStep(k, run_download(workers[k], existing, outcome, queue_count + 1),
                        music_status, "download")

\* The main thread handles the signal a worker emitted.
DeliverSignal(k) ==
    /\ pc = "running"
    /\ k \in 1 .. Len(workers)
    /\ workers[k].pending # ""
    /\ SetQueue(IF workers[k].pending = "finished"
                THEN on_download_finished(Queue, workers[k].entry)
                ELSE on_download_error(Queue, workers[k].message))
    /\ workers' = [workers EXCEPT ![k].pending = ""]
    /\ last' = [op |-> "delivered", id |-> ToString(k), pre |-> workers[k].pending]
    /\ UNCHANGED <<timerVars, files, queue_count, yt_dlp>>

\* A first run with or without yt_dlp, over a cache directory that holds
\* nothing of vidB and, of vidA, a partial file with or without a complete
\* file next to it.
InitDownload ==
    /\ FirstRunWindow
    /\ stack_list = <<>>
    /\ current_row = -1
    /\ current_queue_id = ""
    /\ playback_state = "Stopped"
    /\ media_source = ""
    /\ play_pause_text = "Play"
    /\ now_playing = "(none)"
    /\ music_status = "Ready."
    /\ files \in {{PartialPath(VidA)}, {CachePath(VidA), PartialPath(VidA)}}
    /\ queue_count = 0
    /\ yt_dlp \in BOOLEAN
    /\ workers = <<>>

NextDownload ==
    \/ \E url \in UrlInputs : HandleAddUrl(url)
    \/ \E k \in 1 .. MaxWorkers, info \in MetaOutcomes : WorkerFetchMetadata(k, info)
    \/ \E k \in 1 .. MaxWorkers : WorkerCleanup(k)
    \/ \E k \in 1 .. MaxWorkers : WorkerProbe(k)
    \/ \E k \in 1 .. MaxWorkers, outcome \in DownloadOutcomes : WorkerDownload(k, outcome)
    \/ \E k \in 1 .. MaxWorkers : DeliverSignal(k)

SpecDownload == InitDownload /\ [][NextDownload]_vars

\* Every URL, submitted in the URL field of a window without workers or
\* given to a worker that is constructed directly; the worker runs up to
\* its metadata fetch and the main thread handles what it emits.
InitUrl ==
    /\ FirstRunWindow
    /\ stack_list = <<>>
    /\ current_row = -1
    /\ current_queue_id = ""
    /\ playback_state = "Stopped"
    /\ media_source = ""
    /\ play_pause_text = "Play"
    /\ now_playing = "(none)"
    /\ music_status = "Ready."
    /\ files = {}
    /\ queue_count = 0
    /\ yt_dlp \in BOOLEAN
    /\ workers \in {<<>>} \cup {<<NewWorker(url)>> : url \in Urls}

NextUrl ==
    \/ \E url \in Urls : workers = <<>> /\ HandleAddUrl(url)
    \/ \E k \in 1 .. MaxWorkers, info \in MetaOutcomes : WorkerFetchMetadata(k, info)
    \/ \E k \in 1 .. MaxWorkers : DeliverSignal(k)

SpecUrl == InitUrl /\ [][NextUrl]_vars

(***************************************************************************)
(* The cache functions on their own: a cache directory of at most MaxFiles *)
(* entries, on which find_cached_audio and the two cleanups are called.    *)
(***************************************************************************)
MaxFiles == 3

\* The entries a cache directory can hold: every name of VidA, a complete
\* and a partial file of VidB, and two files that belong to no video.
CacheUniverse ==
    {Candidates(VidA)[i] : i \in 1 .. Len(CacheNames)}
    \cup {CachePath(VidB), PartialPath(VidB), "cache/notes.tmp", "cache/cover.webm"}

\* Which unlink calls of a cleanup failed: none, all, or some of them.
UnlinkOutcome(before, after, locked) ==
    IF locked = {} THEN "deleted"
    ELSE IF after = before THEN "all_failed" ELSE "some_failed"

FindCachedAudio(video_id) ==
    /\ last' = [op |-> "find", id |-> video_id, pre |-> find_cached_audio(files, video_id)]
    /\ UNCHANGED <<timerVars, queueVars>>

CleanupPartialCacheFiles(video_id, locked) ==
    /\ files' = cleanup_partial_cache_files(files, video_id, locked)
    /\ last' = [op |-> "cleanup", id |-> video_id,
                pre |-> UnlinkOutcome(files, files', locked)]
    /\ UNCHANGED <<timerVars, stack_list, current_row, current_queue_id, playback_state,
                   media_source, play_pause_text, now_playing, music_status, queue_count,
                   yt_dlp, workers>>

CleanupAllPartialCacheFiles(locked) ==
    /\ files' = cleanup_all_partial_cache_files(files, locked)
    /\ last' = [op |-> "cleanup_all", id |-> "",
                pre |-> UnlinkOutcome(files, files', locked)]
    /\ UNCHANGED <<timerVars, stack_list, current_row, current_queue_id, playback_state,
                   media_source, play_pause_text, now_playing, music_status, queue_count,
                   yt_dlp, workers>>

InitCache ==
    /\ FirstRunWindow
    /\ stack_list = <<>>
    /\ current_row = -1
    /\ current_queue_id = ""
    /\ playback_state = "Stopped"
    /\ media_source = ""
    /\ play_pause_text = "Play"
    /\ now_playing = "(none)"
    /\ music_status = "Ready."
    /\ files \in {s \in SUBSET CacheUniverse : Cardinality(s) <= MaxFiles}
    /\ queue_count = 0
    /\ yt_dlp = TRUE
    /\ workers = <<>>

NextCache ==
    \/ \E v \in VideoIds : FindCachedAudio(v)
    \/ \E v \in VideoIds, locked \in SUBSET Unlinked(files) :
           CleanupPartialCacheFiles(v, locked)
    \/ \E locked \in SUBSET Unlinked(files) : CleanupAllPartialCacheFiles(locked)

SpecCache == InitCache /\ [][NextCache]_vars

(***************************************************************************)
(* Runs of the program with downloads: the window is opened on a cache     *)
(* directory that earlier runs left, URLs are submitted one worker at a    *)
(* time, the window is closed, also with a worker in flight, and the       *)
(* program is started again.                                               *)
(***************************************************************************)
StartupDirs ==
    {{}, {PartialPath(VidA)}, {CachePath(VidB), PartialPath(VidB), "cache/notes.tmp"}}

InitStartup ==
    /\ TimerInit({File("missing", "absent", <<>>)})
    /\ stack_list = <<>>
    /\ current_row = -1
    /\ current_queue_id = ""
    /\ playback_state = "Stopped"
    /\ media_source = ""
    /\ play_pause_text = "Play"
    /\ now_playing = "(none)"
    /\ music_status = "Ready."
    /\ files \in StartupDirs
    /\ queue_count = 0
    /\ yt_dlp = TRUE
    /\ workers = <<>>

NextStartup ==
    \/ Launch
    \/ Relaunch
    \/ CloseEvent
    \/ \E url \in UrlInputs : workers = <<>> /\ HandleAddUrl(url)
    \/ \E k \in 1 .. MaxWorkers, info \in MetaOutcomes : WorkerFetchMetadata(k, info)
    \/ \E k \in 1 .. MaxWorkers : WorkerCleanup(k)
    \/ \E k \in 1 .. MaxWorkers : WorkerProbe(k)
    \/ \E k \in 1 .. MaxWorkers, outcome \in DownloadOutcomes : WorkerDownload(k, outcome)
    \/ \E k \in 1 .. MaxWorkers : DeliverSignal(k)

SpecStartup == InitStartup /\ [][NextStartup]_vars

(***************************************************************************)
(* The download call of run as the two steps it is for the other threads:  *)
(* it begins to write its files and, later, it returns or raises.  With    *)
(* "nopart": True (line 455) the audio is written under its final name,    *)
(* the one prepare_filename reports or another one; a download in          *)
(* fragments keeps a .ytdl file next to it until it is complete.  Nothing  *)
(* in handle_add_url or run orders the workers of one video.               *)
(***************************************************************************)
\* The paths that the workers other than k are writing.
WrittenByOthers(k) ==
    UNION {workers[j].writing : j \in (1 .. Len(workers)) \ {k}}

\* cleanup_partial_cache_files in a worker, next to the other workers:
\* unlink of a file that another worker holds open succeeds or raises.
WorkerCleanupShared(k) ==
    /\ pc = "running"
    /\ k \in 1 .. Len(workers)
    /\ workers[k].pc = "fetched"
    /\ WorkerStep(k, run_cleanup(workers[k]), music_status, "cleanup")
    /\ \E locked \in SUBSET (WrittenByOthers(k) \cap files) :
           files' = cleanup_partial_cache_files(files, workers[k].video_id, locked)

\* ydl.extract_info(url, download=True) begins to write (lines 457-458).
WorkerDownloadBegins(k, outcome, fragmented) ==
    /\ pc = "running"
    /\ k \in 1 .. Len(workers)
    /\ workers[k].pc = "downloading"
    /\ workers[k].writing = {}
    /\ outcome \in {"written", "other_name"}
    /\ LET video_id == workers[k].video_id
           started == DownloadedFiles({}, video_id, outcome)
                          \cup (IF fragmented THEN {YtdlPath(video_id)} ELSE {})
       IN /\ files' = files \cup started
          /\ WorkerStep(k, [workers[k] EXCEPT !.writing = started], music_status,
                        "download_begins")

\* The download call returns or raises, and run goes on to its end
\* (lines 458-476).
WorkerDownloadEnds(k, outcome) ==
    /\ pc = "running"
    /\ k \in 1 .. Len(workers)
    /\ workers[k].pc = "downloading"
    /\ workers[k].writing # {}
    /\ outcome \in {"raise",
                    IF CachePath(workers[k].video_id) \in workers[k].writing
                    THEN "written" ELSE "other_name"}
    /\ LET existing == IF outcome = "raise" THEN files
                       ELSE files \ {YtdlPath(workers[k].video_id)}
       IN /\ files' = existing
          /\ WorkerStep(k, run_download([workers[k] EXCEPT !.writing = {}], existing,
                                        outcome, queue_count + 1),
                        music_status, "download")

\* A first run with yt_dlp over a cache directory that holds nothing or a
\* partial file of vidB.
InitRace ==
    /\ FirstRunWindow
    /\ stack_list = <<>>
    /\ current_row = -1
    /\ current_queue_id = ""
    /\ playback_state = "Stopped"
    /\ media_source = ""
    /\ play_pause_text = "Play"
    /\ now_playing = "(none)"
    /\ music_status = "Ready."
    /\ files \in {{}, {PartialPath(VidB)}}
    /\ queue_count = 0
    /\ yt_dlp = TRUE
    /\ workers = <<>>

NextRace ==
    \/ \E url \in UrlInputs : HandleAddUrl(url)
    \/ \E k \in 1 .. MaxWorkers, info \in MetaOutcomes : WorkerFetchMetadata(k, info)
    \/ \E k \in 1 .. MaxWorkers : WorkerCleanupShared(k)
    \/ \E k \in 1 .. MaxWorkers : WorkerProbe(k)
    \/ \E k \in 1 .. MaxWorkers, outcome \in DownloadOutcomes, fragmented \in BOOLEAN :
           WorkerDownloadBegins(k, outcome, fragmented)
    \/ \E k \in 1 .. MaxWorkers, outcome \in DownloadOutcomes : WorkerDownloadEnds(k, outcome)
    \/ \E k \in 1 .. MaxWorkers : DeliverSignal(k)

SpecRace == InitRace /\ [][NextRace]_vars

\* A step of run in some worker thread; a started thread keeps running.
WorkerRuns ==
    \E k \in 1 .. MaxWorkers :
        \/ \E info \in MetaOutcomes : WorkerFetchMetadata(k, info)
        \/ WorkerCleanup(k)
        \/ WorkerProbe(k)
        \/ \E outcome \in DownloadOutcomes : WorkerDownload(k, outcome)

SpecDownloadLive == SpecDownload /\ WF_vars(WorkerRuns)

(***************************************************************************)
(* Properties of the timers.                                               *)
(***************************************************************************)

\* C1: every timer has total_seconds >= 1 and 0 <= remaining_seconds <=
\* total_seconds in every state, also right after a restore from the layout
\* file.
C1_RemainingWithinTotal ==
    \A id \in DOMAIN cards :
        /\ cards[id].total_seconds >= 1
        /\ 0 <= cards[id].remaining_seconds
        /\ cards[id].remaining_seconds <= cards[id].total_seconds

\* C2: a running timer has remaining_seconds > 0, and the one-second QTimer
\* of a card is active exactly when the card is running.
C2_RunningHasTimeLeft ==
    \A id \in DOMAIN cards :
        /\ cards[id].is_running => cards[id].remaining_seconds > 0
        /\ cards[id].timer_active <=> cards[id].is_running

\* A tick has just expired a running timer: it stopped and so did its QTimer.
C2_Witness ==
    \E id \in DOMAIN cards :
        /\ last = [op |-> "tick", id |-> id, pre |-> "Running"]
        /\ cards[id].remaining_seconds = 0
        /\ ~cards[id].is_running
        /\ ~cards[id].timer_active

\* C3: saving the timers of a running window (at least one timer), loading
\* the written document into a new window and saving again reproduces the
\* document: same ids in the same order, same titles, totals, remaining
\* seconds and running flags.
C3_RoundTrip ==
    (pc = "running" /\ card_order # <<>>) =>
        LET doc == SaveDoc(Window)
            r == load_layout(doc, uuid_count)
        IN ~r.raised /\ SaveDoc(r.w) = doc

\* C4: load_layout never raises, whatever the layout file holds.
C4_LoadNeverRaises == pc # "crashed"

\* C5: the Set button leaves the card Idle with total_seconds =
\* max(1, new total) and remaining_seconds = total_seconds, in any state
\* and for any new total, 0 included.
C5_SetDuration ==
    [][\A id \in TimerIds, h \in SpinHours, m \in SpinMinutes, s \in SpinSeconds :
           ApplyNewDuration(id, h, m, s) =>
               /\ cards'[id].total_seconds = Max(1, h * 3600 + m * 60 + s)
               /\ cards'[id].remaining_seconds = cards'[id].total_seconds
               /\ cards'[id].remaining_seconds > 0
               /\ ~cards'[id].is_running
               /\ ~cards'[id].timer_active]_vars

\* Set was pressed on a running card that had counted down.
C5_Witness ==
    \E id \in DOMAIN cards :
        /\ last = [op |-> "set", id |-> id, pre |-> "Running"]
        /\ StateOf(cards[id]) = "Idle"
        /\ cards[id].remaining_seconds = cards[id].total_seconds

\* C6: a timer started at remaining_seconds = total_seconds and then only
\* ticked has lost exactly one second per tick, is running until the
\* total_seconds-th tick and Expired from then on, receives no tick after
\* that, and never has a negative remaining time.
C6_FreshCountdown ==
    \A id \in DOMAIN cards :
        fresh[id] >= 0 =>
            /\ cards[id].remaining_seconds = cards[id].total_seconds - fresh[id]
            /\ cards[id].remaining_seconds >= 0
            /\ fresh[id] <= cards[id].total_seconds
            /\ cards[id].is_running <=> fresh[id] < cards[id].total_seconds
            /\ cards[id].timer_active <=> fresh[id] < cards[id].total_seconds

\* A timer of two seconds or more has been counted down to Expired.
C6_Witness ==
    \E id \in DOMAIN cards :
        /\ cards[id].total_seconds >= 2
        /\ fresh[id] = cards[id].total_seconds
        /\ StateOf(cards[id]) = "Expired"

\* C7: Play / Pause takes Idle to Running and Running to Idle with the
\* remaining time unchanged, and Expired to Running with the remaining time
\* set to the total; Reset takes any state to Idle with the remaining time
\* set to the total; neither changes total_seconds, the title, the id or the
\* other cards.
C7_ToggleReset ==
    [][\A id \in TimerIds :
           /\ ToggleStartPause(id) =>
                  /\ cards'[id].total_seconds = cards[id].total_seconds
                  /\ cards'[id].title = cards[id].title
                  /\ card_order' = card_order
                  /\ StateOf(cards[id]) = "Idle" =>
                         /\ StateOf(cards'[id]) = "Running"
                         /\ cards'[id].remaining_seconds = cards[id].remaining_seconds
                  /\ StateOf(cards[id]) = "Expired" =>
                         /\ StateOf(cards'[id]) = "Running"
                         /\ cards'[id].remaining_seconds = cards[id].total_seconds
                  /\ StateOf(cards[id]) = "Running" =>
                         /\ StateOf(cards'[id]) = "Idle"
                         /\ cards'[id].remaining_seconds = cards[id].remaining_seconds
           /\ ResetTimer(id) =>
                  /\ cards'[id].total_seconds = cards[id].total_seconds
                  /\ cards'[id].title = cards[id].title
                  /\ card_order' = card_order
                  /\ StateOf(cards'[id]) = "Idle"
                  /\ cards'[id].remaining_seconds = cards[id].total_seconds]_vars

\* Play was pressed on an Expired card: it runs again from its total.
C7_Witness ==
    \E id \in DOMAIN cards :
        /\ last = [op |-> "toggle", id |-> id, pre |-> "Expired"]
        /\ StateOf(cards[id]) = "Running"
        /\ cards[id].remaining_seconds = cards[id].total_seconds

\* The first element of the loaded list that stores timer_id as the string id.
IsEntryOf(i, id) ==
    /\ layout.items[i].isdict
    /\ layout.items[i].timer_id = JStr(id)
    /\ \A j \in 1 .. (i - 1) :
           ~(layout.items[j].isdict /\ layout.items[j].timer_id = JStr(id))

\* C8: a timer restored from a stored entry is running exactly when the
\* entry stores is_running = true and remaining_seconds > 0.
C8_RestoredRunning ==
    (pc = "running" /\ last.op = "load") =>
        \A id \in DOMAIN cards, i \in 1 .. Len(layout.items) :
            (/\ IsEntryOf(i, id)
             /\ layout.items[i].is_running.t = "bool"
             /\ layout.items[i].remaining_seconds.t = "int") =>
                (cards[id].is_running <=>
                    /\ layout.items[i].is_running = JBool(TRUE)
                    /\ layout.items[i].remaining_seconds.n > 0)

\* C15: add_timer_card with an id that is already present changes nothing:
\* the number of cards, card_order and the title, total, remaining time and
\* running flag (with its QTimer) of the existing card stay as they are, for
\* any title, duration, remaining time and running flag passed; a layout
\* file that lists an id twice restores the first entry only.
C15_AddIdempotent ==
    /\ \A id \in DOMAIN cards, title \in {"Tea", "Timer"}, total \in {1, 60},
           rem \in {NoneInt, SomeInt(0), SomeInt(1)}, run \in BOOLEAN :
           LET w == add_timer_card(Window, title, total, id, rem, run)
           IN w.cards = cards /\ w.order = card_order
    /\ (/\ pc = "running"
        /\ last.op = "load"
        /\ Len(layout.items) = 2
        /\ layout.items[1].isdict
        /\ layout.items[2].isdict
        /\ layout.items[1].timer_id = JStr("a")
        /\ layout.items[2].timer_id = JStr("a")) =>
            LET first == load_layout(File("object", "list", <<layout.items[1]>>), 0)
            IN cards = first.w.cards /\ card_order = first.w.order

\* A file that stores the id a twice, the second time with another total
\* and running flag, was loaded: one card a, as its first entry stores it.
C15_Witness ==
    /\ pc = "running"
    /\ last.op = "load"
    /\ Len(layout.items) = 2
    /\ layout.items[1] = Item(JStr("a"), JStr("Tea"), JInt(2), JInt(1), JBool(TRUE))
    /\ layout.items[2] = Item(JStr("a"), JAbsent, JStr("3"), JInt(3), JBool(FALSE))
    /\ card_order = <<"a">>
    /\ cards["a"].total_seconds = 2
    /\ cards["a"].is_running

\* C16: card_order holds exactly the ids of the cards, each once; a new
\* card is appended at the end; deleting a card takes only its id out,
\* keeps the order of the other ids and leaves the other cards as they are;
\* delete_timer_card of an id that is not present changes nothing.
C16_OrderList ==
    /\ [](/\ {card_order[k] : k \in 1 .. Len(card_order)} = DOMAIN cards
          /\ \A j, k \in 1 .. Len(card_order) : card_order[j] = card_order[k] => j = k
          /\ \A id \in TimerIds \ DOMAIN cards :
                 delete_timer_card(Window, id) = Window)
    /\ [][/\ (AddPresetTimerWithin(MaxOrder, MaxOrder)
               \/ (AddCustomTimerWithin(MaxOrder, MaxOrder) /\ last'.op = "add")) =>
                  /\ card_order' = Append(card_order, UuidHex(uuid_count + 1))
                  /\ UuidHex(uuid_count + 1) \notin DOMAIN cards
                  /\ \A o \in DOMAIN cards : cards'[o] = cards[o]
          /\ \A id \in TimerIds :
                 DeleteTimerCard(id) =>
                     /\ card_order' = SelectSeq(card_order, LAMBDA o : o # id)
                     /\ DOMAIN cards' = DOMAIN cards \ {id}
                     /\ \A o \in DOMAIN cards' : cards'[o] = cards[o]]_vars

\* The card b was deleted from between a and a card added later.
C16_Witness ==
    /\ last.op = "delete"
    /\ last.id = "b"
    /\ card_order = <<"a", UuidHex(1)>>
    /\ DOMAIN cards = {"a", UuidHex(1)}
\* A stored entry whose present fields hold values of the documented types
\* and ranges: a non-empty string id, a non-empty string title, an integer
\* total >= 1, an integer remaining time within [0, total], a boolean flag.
StoredTotal(item) ==
    IF item.total_seconds.t = "absent" THEN 60 ELSE item.total_seconds.n

WellFormed(item) ==
    /\ item.isdict
    /\ item.timer_id.t = "absent" \/ (item.timer_id.t = "str" /\ item.timer_id.s # "")
    /\ item.title.t = "absent" \/ (item.title.t = "str" /\ item.title.s # "")
    /\ item.total_seconds.t = "absent"
           \/ (item.total_seconds.t = "int" /\ item.total_seconds.n >= 1)
    /\ item.remaining_seconds.t = "absent"
           \/ (/\ item.remaining_seconds.t = "int"
               /\ item.remaining_seconds.n >= 0
               /\ item.remaining_seconds.n <= StoredTotal(item))
    /\ item.is_running.t \in {"absent", "bool"}

\* C17: a non-empty stored list is restored object by object in array
\* order; an absent field takes its default (title "Timer", total 60,
\* remaining = the entry's total, not running, a fresh id that no other
\* card has) and a present field is restored with its stored value.
C17_RestoreDefaults ==
    (/\ pc = "running"
     /\ last = [op |-> "load", id |-> "", pre |-> "restored"]
     /\ runs = 1) =>
        LET D == SelectSeq(layout.items, LAMBDA item : item.isdict)
        IN ((\A k \in 1 .. Len(D) : WellFormed(D[k]))
            /\ (\A j, k \in 1 .. Len(D) :
                    (j # k /\ D[j].timer_id.t = "str") => D[j].timer_id # D[k].timer_id)) =>
               /\ Len(card_order) = Len(D)
               /\ \A j, k \in 1 .. Len(card_order) : card_order[j] = card_order[k] => j = k
               /\ \A k \in 1 .. Len(D) :
                      LET item == D[k]
                          id == card_order[k]
                          remaining == IF item.remaining_seconds.t = "absent"
                                       THEN StoredTotal(item)
                                       ELSE item.remaining_seconds.n
                      IN /\ item.timer_id.t = "str" => id = item.timer_id.s
                         /\ item.timer_id.t = "absent" =>
                                \E u \in 1 .. uuid_count : id = UuidHex(u)
                         /\ cards[id].title =
                                (IF item.title.t = "absent" THEN "Timer" ELSE item.title.s)
                         /\ cards[id].total_seconds = StoredTotal(item)
                         /\ cards[id].remaining_seconds = remaining
                         /\ cards[id].is_running =
                                (item.is_running = JBool(TRUE) /\ remaining > 0)

\* The file holds no object to restore a timer from.
NothingRestorable(file) ==
    \/ file.kind # "object"
    \/ file.timers_t # "list"
    \/ \A i \in 1 .. Len(file.items) : ~file.items[i].isdict

\* C18: when the file holds nothing restorable (missing, unreadable,
\* malformed, root not an object, no timers list, empty list, list without
\* an object), the window holds exactly the three Idle timers of 60, 180
\* and 3600 seconds in that order, each with remaining = total, and
\* save_layout writes them at once, no save being queued; when a timer is
\* restored no default is added and the file is left as it is.
C18_SeedDefaults ==
    [][((Launch \/ Relaunch) /\ pc' = "running") =>
           IF NothingRestorable(layout)
           THEN /\ Len(card_order') = 3
                /\ \A k \in 1 .. 3 :
                       /\ card_order'[k] = UuidHex(uuid_count + k)
                       /\ cards'[card_order'[k]].total_seconds = <<60, 180, 3600>>[k]
                       /\ cards'[card_order'[k]].remaining_seconds = <<60, 180, 3600>>[k]
                       /\ cards'[card_order'[k]].title = <<"1 min", "3 min", "1 hour">>[k]
                       /\ StateOf(cards'[card_order'[k]]) = "Idle"
                       /\ ~cards'[card_order'[k]].timer_active
                /\ DOMAIN cards' = {card_order'[k] : k \in 1 .. 3}
                /\ ~save_timer_active'
                /\ last'.pre = "seeded_written" => layout' = SaveDoc([cards |-> cards',
                                                                     order |-> card_order',
                                                                     uuid |-> uuid_count'])
                /\ last'.pre # "seeded_written" =>
                       (last'.pre = "seeded_unwritten" /\ layout' = layout)
           ELSE /\ last'.pre = "restored"
                /\ layout' = layout
                /\ Len(card_order') >= 1
                /\ Len(card_order') <= Len(layout.items)
                /\ uuid_count' <= uuid_count + Len(layout.items)
                /\ \A id \in DOMAIN cards' :
                       \E i \in 1 .. Len(layout.items) :
                           /\ layout.items[i].isdict
                           /\ cards'[id].title =
                                  PyStr(PyOr(layout.items[i].title, JStr("Timer")))]_vars

\* The first run found nothing to restore: the three defaults are in the
\* window and in the file, and no save is queued.
C18_Witness ==
    /\ pc = "running"
    /\ last = [op |-> "load", id |-> "", pre |-> "seeded_written"]
    /\ runs = 1
    /\ card_order = <<UuidHex(1), UuidHex(2), UuidHex(3)>>
    /\ layout = SaveDoc(Window)
    /\ Len(layout.items) = 3
    /\ ~save_timer_active
\* A handler of the window that changes a timer or the collection.
TimerChange ==
    \/ (AddPresetTimerWithin(1, 1) \/ AddCustomTimerWithin(1, 1)) /\ last'.op = "add"
    \/ \E id \in TimerIds :
           \/ DeleteTimerCard(id)
           \/ ToggleStartPause(id)
           \/ ResetTimer(id)
           \/ OnTick(id)
           \/ \E h \in SpinHours, m \in SpinMinutes, s \in SpinSeconds :
                  ApplyNewDuration(id, h, m, s)

\* C13: while queue_save calls follow one another within less than the
\* 250 ms interval, save_timer does not fire and nothing is written; it
\* fires one interval after the last call, is then stopped, and by then
\* save_layout has run exactly once since that call; the write stores the
\* timers as they are at the time of the write.
C13_Debounce ==
    /\ [](pc = "running" =>
             /\ save_timer_active <=> save_timer_left > 0
             /\ save_timer_active =>
                    /\ save_hist.writes = 0
                    /\ save_hist.calls > 0
                    /\ save_timer_left = SAVE_INTERVAL_MS - save_hist.since
             /\ (~save_timer_active /\ last.op \in {"save_timeout", "time"}) =>
                    (save_hist.writes = 1 /\ save_hist.calls = 0))
    /\ [][/\ TimerChange => layout' = layout
          /\ (AdvanceTime /\ last'.op = "save_timeout") =>
                 /\ save_hist.since + TimeStepMs >= SAVE_INTERVAL_MS
                 /\ ~save_timer_active'
                 /\ save_hist'.writes = 1
                 /\ layout' = IF save_hist'.ok THEN SaveDoc(Window) ELSE layout
          /\ (AdvanceTime /\ last'.op = "time") => layout' = layout]_vars

\* Several queue_save calls came within the interval of one another, the
\* timer then fired and wrote a timer that a tick had expired.
C13_Witness ==
    /\ pc = "running"
    /\ last = [op |-> "save_timeout", id |-> "", pre |-> "burst"]
    /\ save_hist.writes = 1
    /\ save_hist.ok
    /\ ~save_timer_active
    /\ Len(layout.items) = 1
    /\ layout.items[1].remaining_seconds = JInt(0)

\* C14: every start, pause, tick, reset and Set of a timer and every add
\* and delete of a card queues a save; hence, one interval after the last
\* change, and after the window was closed, layout.json holds the timers of
\* the window (ids, order, titles, totals, remaining times, running flags),
\* provided the last write did not fail.
C14_SavedAfterChanges ==
    /\ [][/\ TimerChange =>
                 /\ save_timer_active'
                 /\ save_timer_left' = SAVE_INTERVAL_MS
          /\ (pc = "running" /\ pc' = "running"
                  /\ (cards' # cards \/ card_order' # card_order)) =>
                 /\ save_timer_active'
                 /\ save_timer_left' = SAVE_INTERVAL_MS]_vars
    /\ []((/\ pc = "running"
           /\ last.op \notin {"none", "load"}
           /\ save_hist.since >= SAVE_INTERVAL_MS
           /\ save_hist.ok) => layout = SaveDoc(Window))
    /\ []((pc = "closed" /\ save_hist.ok) => layout = SaveDoc(Window))

\* A running timer was paused and one interval later the file holds it
\* paused with the time it had left.
C14_Witness ==
    /\ pc = "running"
    /\ last.op = "save_timeout"
    /\ save_hist.since >= SAVE_INTERVAL_MS
    /\ save_hist.ok
    /\ card_order = <<"a">>
    /\ StateOf(cards["a"]) = "Idle"
    /\ cards["a"].remaining_seconds = 1
    /\ layout = SaveDoc(Window)
    /\ layout.items[1].is_running = JBool(FALSE)

(***************************************************************************)
(* Properties of the audio queue.                                          *)
(***************************************************************************)
\* The position a navigation starts from: the row of the current entry, or
\* the selected row when no entry is current, or the first row when none is
\* selected; -1 in an empty queue.
NavStart ==
    IF current_queue_id # ""
       /\ \E k \in 1 .. Len(stack_list) : stack_list[k].queue_id = current_queue_id
    THEN (CHOOSE k \in 1 .. Len(stack_list) : stack_list[k].queue_id = current_queue_id) - 1
    ELSE IF current_row >= 0 THEN current_row
    ELSE IF Len(stack_list) > 0 THEN 0 ELSE -1

NowPlays(entry) ==
    /\ current_queue_id' = entry.queue_id
    /\ playback_state' = "Playing"
    /\ media_source' = entry.file_path
    /\ stack_list' = stack_list

C10_Remove ==
    [][RemoveSelectedItem =>
           /\ files' = files
           /\ current_row < 0 =>
                  UNCHANGED <<stack_list, current_queue_id, playback_state, media_source>>
           /\ current_row >= 0 =>
                  /\ stack_list' = [k \in 1 .. (Len(stack_list) - 1) |->
                                       IF k <= current_row THEN stack_list[k]
                                       ELSE stack_list[k + 1]]
                  /\ stack_list[current_row + 1].queue_id = current_queue_id =>
                         /\ playback_state' = "Stopped"
                         /\ current_queue_id' = ""
                  /\ stack_list[current_row + 1].queue_id # current_queue_id =>
                         /\ current_queue_id' = current_queue_id
                         /\ playback_state' = playback_state
                         /\ media_source' = media_source]_vars

\* The current entry was removed from a queue of two: the other entry is
\* left, nothing is current, the player is stopped and the file is kept.
C10_Witness ==
    /\ last = [op |-> "remove", id |-> "", pre |-> "current"]
    /\ Len(stack_list) = 1
    /\ current_queue_id = ""
    /\ playback_state = "Stopped"
    /\ media_source \in files

\* C19: a finished download appends exactly one entry at the end of the
\* queue; the queue_ids of the queue are pairwise distinct, also when the same
\* video is queued twice; the entries already queued, their order, the
\* current pointer, the playback state and the player's source are unchanged;
\* in an empty queue the new entry becomes the selected row and nothing plays.
C19_Append ==
    /\ [](\A j, k \in 1 .. Len(stack_list) :
             stack_list[j].queue_id = stack_list[k].queue_id => j = k)
    /\ [][\A v \in VideoIds :
             DownloadFinished(v) =>
                 LET n == Len(stack_list)
                 IN /\ Len(stack_list') = n + 1
                    /\ SubSeq(stack_list', 1, n) = stack_list
                    /\ stack_list'[n + 1].video_id = v
                    /\ stack_list'[n + 1].file_path \in files'
                    /\ UNCHANGED <<current_queue_id, playback_state, media_source>>
                    /\ n > 0 => current_row' = current_row
                    /\ n = 0 => /\ current_row' = 0
                                /\ playback_state' # "Playing"]_vars

\* The same video was added a second time while its first entry is playing.
C19_Witness ==
    /\ last.op = "added"
    /\ Len(stack_list) = 2
    /\ stack_list[1].video_id = stack_list[2].video_id
    /\ stack_list[1].queue_id # stack_list[2].queue_id
    /\ current_queue_id = stack_list[1].queue_id
    /\ playback_state = "Playing"

\* C20: Up / Down swaps the selected entry with its neighbour in that
\* direction and leaves the other positions, the set of entries, the current
\* pointer, the playback state and the player's source unchanged; on the
\* first entry with -1 and on the last entry with +1 nothing changes at all.
C20_Move ==
    [][\A d \in {-1, 1} :
           MoveSelectedItem(d) =>
               LET row == current_row
                   n == Len(stack_list)
               IN /\ UNCHANGED <<current_queue_id, playback_state, media_source, files>>
                  /\ (row >= 0 /\ 0 <= row + d /\ row + d < n) =>
                         /\ stack_list' = [k \in 1 .. n |->
                                IF k = row + 1 THEN stack_list[row + d + 1]
                                ELSE IF k = row + d + 1 THEN stack_list[row + 1]
                                ELSE stack_list[k]]
                         /\ current_row' = row + d
                  /\ (row >= 0 /\ (row + d < 0 \/ row + d >= n)) =>
                         UNCHANGED queueVars]_vars

\* The playing entry was moved from the first to the second place: it is
\* still the current entry and still playing.
C20_Witness ==
    /\ last = [op |-> "move", id |-> "", pre |-> "swap"]
    /\ Len(stack_list) = 2
    /\ stack_list[2].queue_id = current_queue_id
    /\ stack_list[2].queue_id = QueueIdHex(1)
    /\ current_row = 1
    /\ playback_state = "Playing"

\* C21: in an unattended run over n queued entries whose files exist,
\* started on the first entry, each end of a track makes the next entry in
\* queue order current and plays it, the queue is not changed, and the end
\* of the last track stops the player on the last entry; every run gets
\* there and stays there, so each entry is current exactly once, in queue
\* order, and playback never wraps to the first entry.
C21_AutoAdvance ==
    /\ [](Unattended =>
             /\ \A k \in 1 .. Len(stack_list) : stack_list[k].file_path \in files
             /\ \A j, k \in 1 .. Len(stack_list) :
                    stack_list[j].queue_id = stack_list[k].queue_id => j = k
             /\ current_queue_id = stack_list[NavStart + 1].queue_id
             /\ media_source = stack_list[NavStart + 1].file_path)
    /\ [][Unattended' =>
             IF ~Unattended
             THEN NavStart' = 0 /\ playback_state' = "Playing"
             ELSE /\ stack_list' = stack_list
                  /\ playback_state = "Playing"
                  /\ IF NavStart < Len(stack_list) - 1
                     THEN NavStart' = NavStart + 1 /\ playback_state' = "Playing"
                     ELSE NavStart' = NavStart /\ playback_state' = "Stopped"]_vars
    /\ <>[](Unattended =>
               /\ NavStart = Len(stack_list) - 1
               /\ playback_state = "Stopped"
               /\ music_status = "Reached end of queue.")

\* The second of two tracks ended: the second entry is still current, the
\* player has stopped and holds the second file.
C21_Witness ==
    /\ Unattended
    /\ last = [op |-> "end_of_media", id |-> "", pre |-> "last"]
    /\ Len(stack_list) = 2
    /\ current_queue_id = stack_list[2].queue_id
    /\ media_source = stack_list[2].file_path
    /\ playback_state = "Stopped"
    /\ music_status = "Reached end of queue."

\* C22: playing an entry whose file is no longer there - by a double
\* click, by Play with nothing current, by Next, by Previous or at the end
\* of a track - shows the cache-file-missing status and leaves the queue,
\* the current pointer, the player's source, the button, the now-playing
\* label and the files as they are; the player's state is as it was, or
\* stopped when the track before ended; deleting a file takes no entry out
\* of the queue.
C22_MissingFile ==
    [][LET i == NavStart
           n == Len(stack_list)
           Gone(k) == stack_list[k].file_path \notin files
           Kept == /\ music_status' = "Cached file missing. Remove and add URL again."
                   /\ UNCHANGED <<stack_list, current_queue_id, media_source,
                                  play_pause_text, now_playing, files>>
       IN /\ \A row \in 0 .. (n - 1) :
                 (PlaySelectedItem(row) /\ Gone(row + 1)) =>
                     Kept /\ playback_state' = playback_state
          /\ (TogglePlayPause /\ playback_state # "Playing" /\ current_queue_id = ""
                  /\ i >= 0 /\ Gone(i + 1)) =>
                 Kept /\ UNCHANGED <<playback_state, current_row>>
          /\ (PlayNext /\ 0 <= i /\ i < n - 1 /\ Gone(i + 2)) =>
                 Kept /\ UNCHANGED <<playback_state, current_row>>
          /\ (PlayPrevious /\ i > 0 /\ Gone(i)) =>
                 Kept /\ UNCHANGED <<playback_state, current_row>>
          /\ (EndOfMedia /\ 0 <= i /\ i < n - 1 /\ Gone(i + 2)) =>
                 Kept /\ playback_state' = "Stopped" /\ current_row' = current_row
          /\ \A v \in VideoIds :
                 CacheFileDeleted(CachePath(v)) =>
                     UNCHANGED <<stack_list, current_row, current_queue_id,
                                 playback_state, media_source, music_status>>]_vars

\* The first of two entries played to its end after the file of the second
\* was deleted: the first is still current, the second still queued, and
\* the player still holds the first file.
C22_Witness ==
    /\ last = [op |-> "end_of_media", id |-> "", pre |-> "first"]
    /\ Len(stack_list) = 2
    /\ stack_list[2].file_path \notin files
    /\ current_queue_id = stack_list[1].queue_id
    /\ media_source = stack_list[1].file_path
    /\ music_status = "Cached file missing. Remove and add URL again."

\* C29: after any sequence of add, remove, move, play, stop, advance,
\* retreat and end-of-media events the current pointer is unset or is the
\* queue_id of an entry that is in the queue.
C29_CurrentInQueue ==
    \/ current_queue_id = ""
    \/ \E k \in 1 .. Len(stack_list) : stack_list[k].queue_id = current_queue_id

\* The current entry was removed while it played: the pointer is unset and
\* the entry that is left is not current.
C29_Witness ==
    /\ last = [op |-> "remove", id |-> "", pre |-> "current"]
    /\ media_source # ""
    /\ Len(stack_list) = 1
    /\ stack_list[1].file_path # media_source
    /\ current_queue_id = ""

\* C30: after any sequence of queue and player operations the play/pause
\* button reads "Pause" exactly when the media player is in the playing
\* state, and "Play" otherwise.
C30_ButtonMatchesPlayer ==
    /\ play_pause_text \in {"Play", "Pause"}
    /\ play_pause_text = "Pause" <=> playback_state = "Playing"

(***************************************************************************)
(* Properties of the cache functions.                                      *)
(***************************************************************************)
\* The entries of a directory that find_cached_audio may return for a
\* video: they match <id>.*, are regular files and end in no partial suffix.
Returnable(existing, video_id) ==
    {p \in existing : /\ \E i \in 1 .. Len(CacheNames) : p = Candidates(video_id)[i]
                      /\ is_file(p)
                      /\ ~IsPartial(p)}

\* Position of a path among the sorted names of a video.
SortIndex(path, video_id) ==
    CHOOSE i \in 1 .. Len(CacheNames) : Candidates(video_id)[i] = path

\* C23: find_cached_audio(id) returns the first entry in sorted-name order
\* that matches <id>.*, is a regular file and does not end in .part, .ytdl,
\* .tmp or .temp, and None when there is no such entry; an entry with a
\* partial suffix is never returned.
C23_FindCachedAudio ==
    last.op = "find" =>
        LET found == last.pre
            fit == Returnable(files, last.id)
        IN /\ fit = {} => found = ""
           /\ fit # {} =>
                  /\ found \in fit
                  /\ \A p \in fit : SortIndex(found, last.id) <= SortIndex(p, last.id)
           /\ found # "" => ~IsPartial(found)

\* A directory and a partial file of the video sort before its only
\* complete file, and that file was returned.
C23_Witness ==
    /\ last = [op |-> "find", id |-> VidA, pre |-> WebmPath(VidA)]
    /\ files = {"cache/" \o VidA \o ".dir", PartialPath(VidA), WebmPath(VidA)}

\* C27: cleanup_partial_cache_files(id) deletes exactly the regular files
\* that match <id>.* and end in a partial suffix, except those whose unlink
\* fails, and cleanup_all_partial_cache_files the same for every name;
\* nothing else is deleted or added, and find_cached_audio gives for every
\* video the same before and after.
C27_CleanupFrame ==
    [][/\ \A v \in VideoIds, locked \in SUBSET Unlinked(files) :
              CleanupPartialCacheFiles(v, locked) =>
                  files \ files' = {p \in files : /\ EntryOf(p).stem = v
                                                  /\ is_file(p)
                                                  /\ IsPartial(p)
                                                  /\ p \notin locked}
       /\ \A locked \in SUBSET Unlinked(files) :
              CleanupAllPartialCacheFiles(locked) =>
                  files \ files' = {p \in files : /\ is_file(p)
                                                  /\ IsPartial(p)
                                                  /\ p \notin locked}
       /\ last'.op \in {"cleanup", "cleanup_all"} =>
              /\ files' \subseteq files
              /\ \A p \in files \ files' : is_file(p) /\ IsPartial(p)
              /\ \A v \in VideoIds :
                     find_cached_audio(files', v) = find_cached_audio(files, v)]_vars

\* The cleanup of VidA failed to delete one partial file and deleted
\* another: the first is still there, and so is the partial file of VidB.
C27_Witness ==
    /\ last = [op |-> "cleanup", id |-> VidA, pre |-> "some_failed"]
    /\ files = {PartialPath(VidA), PartialPath(VidB)}

(***************************************************************************)
(* Properties of the download workers.                                     *)
(***************************************************************************)
\* C11: whatever the extractor does, run ends having emitted exactly one
\* of finished and error, never both and never none, and no exception
\* leaves run; handling an error adds no entry, leaves the queue, the
\* selection, the current pointer and the player as they are, and starts
\* no worker again.
C11_OneSignal ==
    /\ [](\A k \in 1 .. Len(workers) :
             /\ workers[k].pc # "crashed"
             /\ Len(workers[k].emitted) <= 1
             /\ workers[k].pc = "done" <=> Len(workers[k].emitted) = 1
             /\ workers[k].pending # "" => workers[k].emitted = <<workers[k].pending>>)
    /\ <>[](\A k \in 1 .. Len(workers) : workers[k].pc = "done")
    /\ [][\A k \in 1 .. Len(workers) :
             /\ workers[k].pc = "done" =>
                    /\ workers'[k].pc = "done"
                    /\ workers'[k].emitted = workers[k].emitted
             /\ (DeliverSignal(k) /\ workers[k].pending = "error") =>
                    /\ UNCHANGED <<stack_list, current_row, current_queue_id,
                                   playback_state, media_source, files, queue_count>>
                    /\ Len(workers') = Len(workers)
                    /\ \A j \in 1 .. Len(workers) :
                           /\ workers'[j].pc = workers[j].pc
                           /\ workers'[j].steps = workers[j].steps]_vars

\* The download call of a worker raised: the worker emitted error only, the
\* main thread showed it, and the queue is empty as before.
C11_Witness ==
    /\ Len(workers) >= 1
    /\ workers[1].steps = <<"metadata", "cleanup", "probe", "download">>
    /\ workers[1].emitted = <<"error">>
    /\ workers[1].pending = ""
    /\ last = [op |-> "delivered", id |-> "1", pre |-> "error"]
    /\ music_status = "Error: extractor error"
    /\ stack_list = <<>>

\* The complete files the cache holds for a video.
CompleteFiles(existing, video_id) ==
    {p \in existing : EntryOf(p).stem = video_id /\ is_file(p) /\ ~IsPartial(p)}

\* C12: the steps of run are, in this order, the metadata fetch, the
\* cleanup of the partial files of the identifier the metadata gives (the
\* one of the URL when they give none), the cache probe and the download;
\* when the probe finds a complete file, run emits finished with that file
\* and never calls the download; the download is called only after the
\* probe found nothing.
C12_StepOrder ==
    /\ [](\A k \in 1 .. Len(workers) :
             LET wk == workers[k]
             IN /\ wk.steps = SubSeq(<<"metadata", "cleanup", "probe", "download">>,
                                     1, Len(wk.steps))
                /\ Len(wk.steps) = 4 => wk.cached = ""
                /\ (Len(wk.steps) >= 3 /\ wk.cached # "") =>
                       /\ Len(wk.steps) = 3
                       /\ wk.emitted = <<"finished">>
                       /\ wk.entry.file_path = wk.cached
                       /\ wk.entry.video_id = wk.video_id)
    /\ [][\A k \in 1 .. Len(workers) :
             /\ \A info \in MetaOutcomes :
                    (WorkerFetchMetadata(k, info) /\ workers'[k].pc = "fetched") =>
                        workers'[k].video_id =
                            (IF info.id # "" THEN info.id ELSE workers[k].url_id)
             /\ WorkerCleanup(k) =>
                    /\ files' = files \ {PartialPath(workers[k].video_id)}
                    /\ workers'[k].video_id = workers[k].video_id
             /\ WorkerProbe(k) =>
                    /\ files' = files
                    /\ CompleteFiles(files, workers[k].video_id) # {} =>
                           /\ workers'[k].emitted = <<"finished">>
                           /\ workers'[k].entry.file_path
                                  \in CompleteFiles(files, workers[k].video_id)
                    /\ CompleteFiles(files, workers[k].video_id) = {} =>
                           /\ workers'[k].emitted = <<>>
                           /\ workers'[k].pc = "downloading"]_vars

\* A URL of vidB whose metadata name vidA, of which the cache holds a
\* complete file: finished with that file after three steps, no download.
C12_Witness ==
    /\ Len(workers) >= 1
    /\ workers[1].url_id = VidB
    /\ workers[1].video_id = VidA
    /\ workers[1].steps = <<"metadata", "cleanup", "probe">>
    /\ workers[1].cached = CachePath(VidA)
    /\ workers[1].emitted = <<"finished">>
    /\ workers[1].entry.file_path = CachePath(VidA)
    /\ PartialPath(VidA) \notin files

\* C26: the file of every entry a worker emits exists in the cache when it
\* is emitted and is no partial file; when the download call returns and the
\* path it reports does not exist, the worker probes the cache again and
\* emits the complete file it finds for the identifier, and when there is
\* none it emits the error "Download finished but no audio file found in
\* cache." and no entry, and the queue gets no entry from it.
C26_EmittedFileExists ==
    /\ [](\A k \in 1 .. Len(workers) :
             workers[k].emitted # <<"finished">> => workers[k].entry = NoEntry)
    /\ [][\A k \in 1 .. Len(workers) :
             /\ (workers[k].emitted = <<>> /\ workers'[k].emitted = <<"finished">>) =>
                    /\ workers'[k].entry.file_path \in files'
                    /\ ~IsPartial(workers'[k].entry.file_path)
                    /\ workers'[k].entry.video_id = workers[k].video_id
             /\ \A outcome \in DownloadOutcomes \ {"raise"} :
                    (WorkerDownload(k, outcome)
                         /\ CachePath(workers[k].video_id) \notin files') =>
                        IF CompleteFiles(files', workers[k].video_id) # {}
                        THEN /\ workers'[k].emitted = <<"finished">>
                             /\ workers'[k].entry.file_path
                                    \in CompleteFiles(files', workers[k].video_id)
                        ELSE /\ workers'[k].emitted = <<"error">>
                             /\ workers'[k].message =
                                    "Download finished but no audio file found in cache."
             /\ (DeliverSignal(k) /\ workers[k].pending = "error") =>
                    stack_list' = stack_list]_vars

\* The download call reported a file that is not there and wrote another
\* file of the video: the worker emitted the entry with that other file.
C26_Witness ==
    /\ Len(workers) >= 1
    /\ workers[1].steps = <<"metadata", "cleanup", "probe", "download">>
    /\ workers[1].emitted = <<"finished">>
    /\ CachePath(workers[1].video_id) \notin files
    /\ workers[1].entry.file_path = WebmPath(workers[1].video_id)
    /\ workers[1].entry.file_path \in files

\* The identifier the claim names for a URL: the first path segment for
\* youtu.be, the "v" query parameter on /watch, the second path segment
\* after shorts, embed or live for the other hosts.
C24_Identifier(url) ==
    LET path_parts == SelectSeq(url.path, LAMBDA p : p # "")
    IN IF HostOf(url) = <<"youtu", "be">>
       THEN (IF path_parts = <<>> THEN "" ELSE path_parts[1])
       ELSE IF url.path = <<"", "watch">>
       THEN (IF url.v = <<>> THEN "" ELSE url.v[1])
       ELSE IF Len(path_parts) > 1 /\ path_parts[1] \in {"shorts", "embed", "live"}
       THEN path_parts[2]
       ELSE ""

\* C24: extract_video_id returns the identifier of a URL when the scheme is
\* http or https, the host without a leading "www." is youtube.com,
\* m.youtube.com, music.youtube.com or youtu.be, and the identifier is
\* eleven characters of [A-Za-z0-9_-]; for every other URL it returns
\* None; it never raises.
C24_ExtractVideoId ==
    \A k \in 1 .. Len(workers) :
        LET url == workers[k].url
            id == C24_Identifier(url)
            accepted ==
                /\ ~urlparse_raises(url)
                /\ url.scheme \in {"http", "https"}
                /\ HostOf(url) \in {<<"youtube", "com">>, <<"m", "youtube", "com">>,
                                    <<"music", "youtube", "com">>, <<"youtu", "be">>}
                /\ Len(Chars(id)) = 11
                /\ \A i \in 1 .. 11 : Chars(id)[i] \in IdChars
        IN extract_video_id(url) = (IF accepted THEN id ELSE "")

InFlight ==
    /\ pc = "running"
    /\ \E k \in 1 .. Len(workers) : workers[k].pc \notin {"done", "crashed"}

\* C28: cleanup_all_partial_cache_files runs exactly once in every run of
\* the program, in the start of the window and before a submission can be
\* handled: a window that is open has had one pass, every worker was
\* created after it, a pass happens only in a start, with no worker, and
\* deletes only regular files with a partial suffix, and no step taken
\* while a worker is in flight is a pass.
C28_StartupCleanup ==
    /\ [](pc \in {"running", "closed", "crashed"} => cleanup_passes = 1)
    /\ [](workers # <<>> => cleanup_passes = 1)
    /\ [][/\ cleanup_passes' # cleanup_passes =>
                 /\ pc = "start"
                 /\ last'.op = "load"
                 /\ workers = <<>> /\ workers' = <<>>
          /\ last'.op = "load" =>
                 /\ cleanup_passes' = 1
                 /\ workers' = <<>>
                 /\ files' \subseteq files
                 /\ \A p \in files \ files' : is_file(p) /\ IsPartial(p)
          /\ last'.op = "add_url" =>
                 /\ pc = "running"
                 /\ cleanup_passes = 1
                 /\ UNCHANGED <<cleanup_passes, files>>
          /\ InFlight =>
                 /\ cleanup_passes' = cleanup_passes
                 /\ last'.op # "load"]_vars

\* The second run of the program: the partial files that earlier runs left
\* are deleted, one pass is counted, and a worker is downloading.
C28_Witness ==
    /\ runs = 2
    /\ pc = "running"
    /\ cleanup_passes = 1
    /\ Len(workers) = 1
    /\ workers[1].pc = "downloading"
    /\ files = {CachePath(VidB)}

(***************************************************************************)
(* Properties of workers that run at the same time.                        *)
(***************************************************************************)
\* The files that the in-flight workers of the video of worker k, other
\* than k, are writing before the step.
TheirFiles(k) ==
    UNION {workers[j].writing :
               j \in {i \in (1 .. Len(workers)) \ {k} :
                          /\ workers[i].pc \notin {"done", "crashed"}
                          /\ workers[i].video_id = workers'[k].video_id}}

\* Worker k takes the step.
StepOf(k, op) == last'.op = op /\ workers'[k] # workers[k]

\* Worker k emits finished in the step.
EmitsFinished(k) == workers[k].pending = "" /\ workers'[k].pending = "finished"

\* The cache probe of worker k returns no file that another in-flight
\* worker of the video is writing.
ProbeAvoidsWriters(k) ==
    StepOf(k, "probe") => workers'[k].cached \notin TheirFiles(k)

\* The probe after the download of worker k returns no such file either.
FallbackAvoidsWriters(k) ==
    (StepOf(k, "download") /\ EmitsFinished(k)
         /\ workers'[k].entry.file_path # CachePath(workers[k].video_id))
        => workers'[k].entry.file_path \notin TheirFiles(k)

\* The cleanup of worker k deletes no file that another in-flight worker of
\* the video is writing.
CleanupSparesWriters(k) ==
    StepOf(k, "cleanup") => (files \ files') \cap TheirFiles(k) = {}

\* The entry that worker k emits names a file that exists and that no
\* worker is writing any more.
EmitsCompleteFile(k) ==
    EmitsFinished(k) =>
        /\ workers'[k].entry.file_path \in files'
        /\ \A j \in 1 .. Len(workers') : workers'[k].entry.file_path \notin workers'[j].writing

\* C31: with two or more workers in flight for the same video, no cache
\* probe of a worker (the one before the download or the one after it)
\* returns a file that another in-flight worker is still writing, no
\* cleanup_partial_cache_files of a worker deletes a file of another
\* in-flight worker, and every entry emitted names a file that is
\* completely downloaded.
C31_ConcurrentDownloads ==
    [][\A k \in 1 .. Len(workers) :
           /\ ProbeAvoidsWriters(k)
           /\ FallbackAvoidsWriters(k)
           /\ CleanupSparesWriters(k)
           /\ EmitsCompleteFile(k)]_vars

====
